---------------------------- MODULE Spec2Model ----------------------------
(* State-machine model of the session-state coordination layer:           *)
(*   - the todo-continuation enforcer (createTodoContinuationEnforcer),    *)
(*   - the auto-compact executor (executeCompact).                         *)
(* Every handler is modelled up to its next await; the continuation after  *)
(* an await is a separate action taken when the RPC returns or the timer   *)
(* fires, so that handlers interleave exactly where the code can suspend.  *)
EXTENDS Integers, Sequences, FiniteSets, Bags, TLC

(***************************************************************************)
(* Bounds of the model                                                     *)
(***************************************************************************)
MaxVersion == 5        \* environment events stop once a version could pass this
MaxRecords == 2        \* SessionState objects ever allocated
MaxIdleHandlers == 2   \* session.idle handlers suspended in their todo fetch
MaxTodos == 2          \* length of a fetched todo list
MaxPrompts == 2        \* session.idle events stop once this many prompts were sent
MaxInvocations == 2    \* external invocations of executeCompact

\* The executor's configuration (TRUNCATE_CONFIG, RETRY_CONFIG, FALLBACK_CONFIG)
\* is imported from a module whose values are not known here: the model takes
\* small values for them.
maxTruncateAttempts == 1
maxAttempts == 2
maxRevertAttempts == 1
initialDelayMs == 2
backoffFactor == 2
maxDelayMs == 3

(***************************************************************************)
(* Program constants                                                       *)
(***************************************************************************)
COUNTDOWN_SECONDS == 2
MIN_INJECTION_INTERVAL_MS == 10000
CONTINUE_DELAY_MS == 500        \* delay of the "Continue" prompt
CHAIN_RETRY_DELAY_MS == 1000    \* delay of the re-invocation after a revert

\* The clock's tick: the countdown's delay, which also divides the throttle
\* interval, so every instant the code compares falls on a tick.
TICK_MS == COUNTDOWN_SECONDS * 1000

SessionIDs == {"ses_main"}
OtherSessionID == "ses_other"
NoSession == "none"
MainSessionIDs == SessionIDs \cup {OtherSessionID, NoSession}

NoObj == 0
Objs == 1..MaxRecords
Undefined == 0          \* an unset timer handle
NoAttempt == -1         \* lastAttemptedAt is undefined

Modes == {"idle", "countingDown", "injecting", "recovering", "errorBypass"}
Statuses == {"pending", "completed", "cancelled"}
\* The code reads of a todo list only its length and how many todos have each
\* status, so the lists are taken up to the order of their todos.
StatusRank(st) == CASE st = "pending" -> 1 [] st = "completed" -> 2 [] OTHER -> 3
TodoLists ==
    {l \in UNION {[1..n -> Statuses] : n \in 0..MaxTodos} :
        \A i, j \in 1..Len(l) : i < j => StatusRank(l[i]) <= StatusRank(l[j])}

\* findNearestMessageWithFields: null, or the stored agent and tools fields
NoAgent == "no-agent"
NoMessage == [found |-> FALSE, agent |-> NoAgent, hasTools |-> FALSE,
              write |-> "unset", edit |-> "unset"]
Message(a, t, w, e) ==
    [found |-> TRUE, agent |-> a, hasTools |-> t, write |-> w, edit |-> e]
PrevMessages ==
    { NoMessage,
      Message(NoAgent, FALSE, "unset", "unset"),
      Message("Sisyphus", FALSE, "unset", "unset"),
      Message("Sisyphus", TRUE, "false", "unset"),
      Message("Sisyphus", TRUE, "unset", "false"),
      Message("Plan", FALSE, "unset", "unset"),
      Message("Planner-Sisyphus", TRUE, "true", "true") }

VARIABLES
    sessions,       \* the sessions Map: session id -> SessionState object (NoObj: absent)
    heap,           \* the SessionState objects: version, mode, timer and, for
                    \* lastAttemptedAt, elapsed = Date.now() - lastAttemptedAt
    allocated,      \* number of SessionState objects created so far
    timers,         \* pending setTimeout callbacks of startCountdown
    idleHandlers,   \* session.idle handlers suspended in session.todo
    injections,     \* executeInjection activations suspended in an RPC
    prompts,        \* the number of session.prompt calls made, per session
    promptAge,      \* history: ms since the last session.prompt call, per object
    errPending,     \* history: session.error handled, no user message since
    recoveryHeld,   \* history: markRecovering called, not yet completed
    e2e             \* history: the end-to-end run being observed

todoVars == <<sessions, heap, allocated, timers, idleHandlers, injections,
              prompts, promptAge, errPending, recoveryHeld, e2e>>

VARIABLES
    compactionInProgress,       \* autoCompactState.compactionInProgress
    pendingCompact,             \* autoCompactState.pendingCompact
    errorDataBySession,         \* the sessions with an errorDataBySession entry
    truncateStateBySession,     \* session id -> truncateAttempt (Absent: no entry)
    retryStateBySession,        \* session id -> attempt (Absent: no entry)
    fallbackStateBySession,     \* session id -> revertAttempt (Absent: no entry)
    activations,                \* bag of executeCompact activations suspended in an await
    compactTimers,              \* bag of pending setTimeout callbacks of executeCompact
    truncatedOutputs,           \* tool outputs truncated in storage, per session
    invoked,                    \* history: external invocations of executeCompact
    reinvoked,                  \* history: retry timeouts that invoked executeCompact
    calls,                      \* history: what the session's latest invocation
                                \* that found the guard free has called, in order
    lastCall                    \* history: how the last invocation of executeCompact began

compactVars == <<compactionInProgress, pendingCompact, errorDataBySession,
                 truncateStateBySession, retryStateBySession,
                 fallbackStateBySession, activations, compactTimers,
                 truncatedOutputs, invoked, reinvoked, calls, lastCall>>

\* the preemptive compaction hook
VARIABLES
    preemptiveInProgress,   \* state.compactionInProgress of the hook
    lastCompactionTime,     \* state.lastCompactionTime: session id -> ms (Absent: no entry)
    now,                    \* Date.now()
    onBeforeSummarize,      \* options.onBeforeSummarize is given
    handlers,               \* the suspended event handlers of the hook, a bag
    sessionDeleted,         \* history: session.deleted has arrived for the session
    lastSummarizeStart,     \* history: Date.now() at the latest session.summarize
                            \* call of the hook since the session's deletion
    lastCheck               \* history: how the latest checkAndTriggerCompaction ended

preemptVars == <<preemptiveInProgress, lastCompactionTime, now, onBeforeSummarize,
                 handlers, sessionDeleted, lastSummarizeStart, lastCheck>>

\* the context-limit lookup on its own
VARIABLES
    queriedModelID,     \* the modelID getContextLimit is called with
    queriedLimit        \* what getContextLimit returned (Absent: not yet called)

\* the tool-call pipeline: the hooks run before and after a tool call
VARIABLES
    nearestAgent,       \* message store: the agent of the nearest stored message
                        \* of the session ("none": no stored messages)
    call,               \* the tool call in progress: input and output of its hooks
    pendingFilePaths    \* the pendingFilePaths Map: callID -> path (<<>>: no entry)

\* the sisyphus-orchestrator hook on the event bus
VARIABLES
    boulder,            \* the persisted plan record that readBoulderState and
                        \* getPlanProgress read
    orchState,          \* the hook's sessions Map: session id -> "absent", or the
                        \* value of lastEventWasAbortError ("unset": undefined)
    bgRunning,          \* a background task of the session is running
    continuations,      \* injectContinuation activations suspended in an RPC
    idles,              \* history: session.idle events handled
    promptsByIdle,      \* history: prompts sent, per session.idle event
    lastPrompt,         \* history: what held when the latest prompt was sent
    abortPending,       \* history: an abort error was handled, no user message since
    lastEventAbort      \* history: the last event handled was an abort error

idleVars == <<orchState, bgRunning, continuations, idles, promptsByIdle, lastPrompt,
              abortPending, lastEventAbort>>

\* the state of the lookup and of the orchestrator's and the guard's hooks
hookVars == <<queriedModelID, queriedLimit, nearestAgent, call, pendingFilePaths,
              boulder, idleVars>>

vars == <<todoVars, compactVars, preemptVars, hookVars>>

(***************************************************************************)
(* Pure helpers                                                            *)
(***************************************************************************)
RECURSIVE CountIncomplete(_, _)
CountIncomplete(todos, k) ==
    IF k = 0 THEN 0
    ELSE CountIncomplete(todos, k - 1) +
         (IF todos[k] # "completed" /\ todos[k] # "cancelled" THEN 1 ELSE 0)

getIncompleteCount(todos) == CountIncomplete(todos, Len(todos))

toLowerCase(a) ==
    CASE a = "Sisyphus" -> "sisyphus"
      [] a = "Plan" -> "plan"
      [] a = "Planner-Sisyphus" -> "planner-sisyphus"
      [] OTHER -> a

isMainSession(sessionID, mainSessionID) ==
    mainSessionID = NoSession \/ sessionID = mainSessionID

agentHasWritePermission(prevMessage) ==
    \/ ~prevMessage.found
    \/ ~prevMessage.hasTools
    \/ (prevMessage.write # "false" /\ prevMessage.edit # "false")

isPlanModeAgent(prevMessage) ==
    LET agentName == IF ~prevMessage.found \/ prevMessage.agent = NoAgent
                     THEN ""
                     ELSE toLowerCase(prevMessage.agent)
    IN  agentName = "plan" \/ agentName = "planner-sisyphus"

NewState == [version |-> 0, mode |-> "idle", timer |-> Undefined,
             elapsed |-> NoAttempt]

(***************************************************************************)
(* State helpers                                                           *)
(***************************************************************************)
HasState(s) == sessions[s] # NoObj
State(s) == heap[sessions[s]]

\* getOrCreateState: the object of the session, allocating a fresh one if absent
StateObj(s) == IF HasState(s) THEN sessions[s] ELSE allocated + 1
SessionsWithState(s) == [sessions EXCEPT ![s] = StateObj(s)]
HeapWithState(s) == IF HasState(s) THEN heap
                    ELSE [heap EXCEPT ![allocated + 1] = NewState]
AllocatedWithState(s) == IF HasState(s) THEN allocated ELSE allocated + 1

\* clearTimer(state): clearTimeout on the handle the object holds
clearTimerSet(tm, o, st) == {t \in tm : ~(t.obj = o /\ t.ver = st.timer)}
clearTimerState(st) == [st EXCEPT !.timer = Undefined]

\* invalidate as it would be without the version increment
invalidateStateNoBump(st) ==
    IF st.mode = "recovering" THEN st
    ELSE [st EXCEPT !.timer = Undefined,
                    !.mode = IF @ # "idle" /\ @ # "errorBypass" THEN "idle" ELSE @]

\* invalidate as it would be without the early return in recovering mode
invalidateStateAlways(st) ==
    [st EXCEPT !.version = @ + 1,
               !.timer = Undefined,
               !.mode = IF @ # "idle" /\ @ # "errorBypass" THEN "idle" ELSE @]

\* invalidate, on the session's state object
invalidateState(st) ==
    IF st.mode = "recovering" THEN st
    ELSE [st EXCEPT !.version = @ + 1,
                    !.timer = Undefined,
                    !.mode = IF @ # "idle" /\ @ # "errorBypass" THEN "idle" ELSE @]

invalidateTimers(tm, o, st) ==
    IF st.mode = "recovering" THEN tm ELSE clearTimerSet(tm, o, st)

\* invalidate(sessionID): no-op when the session has no state
InvalidatedHeap(h, ss, s) ==
    IF ss[s] = NoObj THEN h ELSE [h EXCEPT ![ss[s]] = invalidateState(@)]
InvalidatedTimers(h, ss, tm, s) ==
    IF ss[s] = NoObj THEN tm ELSE invalidateTimers(tm, ss[s], h[ss[s]])

\* A SessionState object that neither the Map nor a suspended closure refers to
\* is garbage: it has no state any more. Of an object that session.deleted
\* removed from the Map, only the version is ever read again (by the staleness
\* checks of the injections that still hold it): its other fields are dead.
InMap(o, ss) == \E s \in SessionIDs : ss[s] = o
Referenced(o, ss, inj, tm) ==
    \/ InMap(o, ss)
    \/ \E i \in inj : i.obj = o
    \/ \E t \in tm : t.obj = o
Collected(h, ss, inj, tm) ==
    [o \in Objs |-> IF InMap(o, ss) THEN h[o]
                    ELSE IF Referenced(o, ss, inj, tm)
                    THEN [NewState EXCEPT !.version = h[o].version]
                    ELSE NewState]
\* the history of prompt calls is kept for the objects of the Map
CollectedAge(a, ss, inj, tm) ==
    [o \in Objs |-> IF InMap(o, ss) THEN a[o] ELSE NoAttempt]

NumIdleHandlers(s) == idleHandlers[s]
InjectionsOf(s) == {i \in injections : i.sid = s}

\* versions still to be consumed by work already in flight
VersionBudget(s) ==
    (IF HasState(s) THEN State(s).version ELSE 0) + 2 * NumIdleHandlers(s)

\* history bookkeeping shared by the handlers
E2eOff == [stage |-> "off", sent |-> 0, said |-> 0, n |-> 0, quiet |-> FALSE,
           pass |-> FALSE,
           act |-> FALSE]
Disturbed(s) == [e2e EXCEPT ![s] = E2eOff]
\* an activity event: before the observed idle's countdown has elapsed, the
\* idle has seen activity; later, the run is no longer observed
ActivitySeen(s) ==
    [e2e EXCEPT ![s] = IF @.stage \in {"idle", "fetched"}
                       THEN [@ EXCEPT !.act = TRUE, !.quiet = FALSE]
                       ELSE E2eOff]

(***************************************************************************)
(* Initial state: createTodoContinuationEnforcer                           *)
(***************************************************************************)
TodoInit ==
    /\ sessions = [s \in SessionIDs |-> NoObj]
    /\ heap = [o \in Objs |-> NewState]
    /\ allocated = 0
    /\ timers = {}
    /\ idleHandlers = [s \in SessionIDs |-> 0]
    /\ injections = {}
    /\ prompts = [s \in SessionIDs |-> 0]
    /\ promptAge = [o \in Objs |-> NoAttempt]
    /\ errPending = [s \in SessionIDs |-> FALSE]
    /\ recoveryHeld = [s \in SessionIDs |-> FALSE]
    /\ e2e = [s \in SessionIDs |-> E2eOff]

(***************************************************************************)
(* Time                                                                    *)
(***************************************************************************)
\* Date.now() advances by one tick. Only differences of instants are read by
\* the code, and only against MIN_INJECTION_INTERVAL_MS and the countdown, so
\* an age stops growing once it has reached MIN_INJECTION_INTERVAL_MS.
Aged(e) ==
    IF e = NoAttempt THEN NoAttempt
    ELSE IF e + TICK_MS >= MIN_INJECTION_INTERVAL_MS
         THEN MIN_INJECTION_INTERVAL_MS
         ELSE e + TICK_MS

\* A timeout that is due runs before the clock moves on. An object that
\* session.deleted removed from the Map does not age: executeInjection reads
\* lastAttemptedAt of the Map's object only, on entry.
Tick ==
    /\ \A t \in timers : t.left > 0
    /\ timers' = {[t EXCEPT !.left = @ - TICK_MS] : t \in timers}
    /\ heap' = [o \in Objs |-> IF InMap(o, sessions)
                                THEN [heap[o] EXCEPT !.elapsed = Aged(@)]
                                ELSE heap[o]]
    /\ promptAge' = [o \in Objs |-> IF InMap(o, sessions) THEN Aged(promptAge[o])
                                     ELSE promptAge[o]]
    /\ UNCHANGED <<sessions, allocated, idleHandlers, injections, prompts,
                   errPending, recoveryHeld, e2e>>

(***************************************************************************)
(* handler: session.error                                                  *)
(***************************************************************************)
SessionError(s) ==
    /\ VersionBudget(s) + 1 <= MaxVersion
    /\ LET o == StateObj(s)
           h1 == HeapWithState(s)
           h2 == [h1 EXCEPT ![o] = invalidateState(@)]
       IN  /\ heap' = [h2 EXCEPT ![o].mode = "errorBypass"]
           /\ timers' = invalidateTimers(timers, o, h1[o])
    /\ sessions' = SessionsWithState(s)
    /\ allocated' = AllocatedWithState(s)
    /\ errPending' = [errPending EXCEPT ![s] = TRUE]
    /\ e2e' = Disturbed(s)
    /\ UNCHANGED <<idleHandlers, injections, prompts, promptAge, recoveryHeld>>

(***************************************************************************)
(* handler: session.idle, up to the await of session.todo                  *)
(***************************************************************************)
\* the guards without the one on errorBypass
IdleSkippedNoBypass(st) ==
    \/ st.mode = "recovering"
    \/ st.mode = "countingDown" \/ st.mode = "injecting"

IdleSkipped(st) ==
    \/ st.mode = "recovering"
    \/ st.mode = "errorBypass"
    \/ st.mode = "countingDown" \/ st.mode = "injecting"

SessionIdle(s, mainSessionID) ==
    /\ prompts[s] < MaxPrompts
    /\ NumIdleHandlers(s) < MaxIdleHandlers
    /\ VersionBudget(s) + 2 <= MaxVersion
    /\ IF ~isMainSession(s, mainSessionID)
       THEN UNCHANGED <<sessions, heap, allocated, idleHandlers, e2e>>
       ELSE /\ sessions' = SessionsWithState(s)
            /\ heap' = HeapWithState(s)
            /\ allocated' = AllocatedWithState(s)
            /\ IF IdleSkipped(HeapWithState(s)[StateObj(s)])
               THEN UNCHANGED <<idleHandlers, e2e>>
               ELSE /\ idleHandlers' = [idleHandlers EXCEPT ![s] = @ + 1]
                    /\ e2e' = [e2e EXCEPT ![s] =
                          IF NumIdleHandlers(s) = 0
                          THEN [E2eOff EXCEPT !.stage = "idle",
                                               !.quiet = InjectionsOf(s) = {},
                                               !.pass = TRUE]
                          ELSE E2eOff]
    /\ UNCHANGED <<timers, injections, prompts, promptAge, errPending, recoveryHeld>>

(***************************************************************************)
(* startCountdown, on the heap and on the pending timeouts                 *)
(***************************************************************************)
\* The countdown toasts (showCountdownToast and the one-second interval) write
\* nothing of the session state and are left to the host.
startCountdownState(st) ==
    LET inv == invalidateState(st)
    IN  [inv EXCEPT !.version = @ + 1,
                    !.mode = "countingDown",
                    !.timer = inv.version + 1]

startCountdownTimers(tm, s, o, st) ==
    invalidateTimers(tm, o, st) \cup
        {[sid |-> s, obj |-> o, ver |-> startCountdownState(st).version,
          left |-> COUNTDOWN_SECONDS * 1000]}

(***************************************************************************)
(* handler: session.idle, after session.todo returned or failed            *)
(***************************************************************************)
IdleFetchPasses(ok, todos, bg) ==
    /\ ok
    /\ Len(todos) # 0
    /\ getIncompleteCount(todos) # 0
    /\ ~bg

IdleTodoReturn(s, ok, todos, bg) ==
    /\ idleHandlers[s] > 0
    /\ idleHandlers' = [idleHandlers EXCEPT ![s] = @ - 1]
    /\ IF IdleFetchPasses(ok, todos, bg)
       THEN /\ sessions' = SessionsWithState(s)
            /\ allocated' = AllocatedWithState(s)
            /\ heap' = [HeapWithState(s) EXCEPT ![StateObj(s)] = startCountdownState(@)]
            /\ timers' = startCountdownTimers(timers, s, StateObj(s),
                                              HeapWithState(s)[StateObj(s)])
            /\ e2e' = [e2e EXCEPT ![s] =
                          IF @.stage = "idle" THEN [@ EXCEPT !.stage = "fetched"] ELSE @]
       ELSE /\ UNCHANGED <<sessions, heap, allocated, timers>>
            /\ e2e' = [e2e EXCEPT ![s] = IF @.stage = "idle" THEN E2eOff ELSE @]
    /\ UNCHANGED <<injections, prompts, promptAge, errPending, recoveryHeld>>

(***************************************************************************)
(* handler: message.updated, message.part.updated, tool.execute.*          *)
(***************************************************************************)
\* the handlers that only call invalidate(sessionID)
InvalidateOnly(s) ==
    /\ heap' = InvalidatedHeap(heap, sessions, s)
    /\ timers' = InvalidatedTimers(heap, sessions, timers, s)
    /\ e2e' = ActivitySeen(s)
    /\ UNCHANGED <<sessions, allocated, idleHandlers, injections, prompts, promptAge,
                   recoveryHeld>>

MessageUpdated(s, role, finish) ==
    /\ VersionBudget(s) + 1 <= MaxVersion
    /\ IF role = "user"
       THEN LET h1 == IF HasState(s) /\ State(s).mode = "errorBypass"
                      THEN [heap EXCEPT ![sessions[s]].mode = "idle"]
                      ELSE heap
            IN  /\ heap' = InvalidatedHeap(h1, sessions, s)
                /\ timers' = InvalidatedTimers(h1, sessions, timers, s)
                /\ e2e' = ActivitySeen(s)
                /\ errPending' = [errPending EXCEPT ![s] = FALSE]
                /\ UNCHANGED <<sessions, allocated, idleHandlers, injections, prompts,
                               promptAge, recoveryHeld>>
       ELSE IF role = "assistant" /\ ~finish
       THEN InvalidateOnly(s) /\ UNCHANGED errPending
       ELSE UNCHANGED todoVars

MessagePartUpdated(s, role) ==
    /\ VersionBudget(s) + 1 <= MaxVersion
    /\ IF role = "assistant"
       THEN InvalidateOnly(s) /\ UNCHANGED errPending
       ELSE UNCHANGED todoVars

ToolExecute(s) ==
    /\ VersionBudget(s) + 1 <= MaxVersion
    /\ InvalidateOnly(s)
    /\ UNCHANGED errPending

(***************************************************************************)
(* handler: session.deleted                                                *)
(***************************************************************************)
SessionDeleted(s) ==
    /\ allocated < MaxRecords
    /\ sessions' = [sessions EXCEPT ![s] = NoObj]
    /\ timers' = IF HasState(s) THEN clearTimerSet(timers, sessions[s], State(s))
                 ELSE timers
    /\ heap' = Collected(IF HasState(s)
                         THEN [heap EXCEPT ![sessions[s]] = clearTimerState(@)]
                         ELSE heap,
                         sessions', injections, timers')
    /\ promptAge' = CollectedAge(promptAge, sessions', injections, timers')
    /\ errPending' = [errPending EXCEPT ![s] = FALSE]
    /\ recoveryHeld' = [recoveryHeld EXCEPT ![s] = FALSE]
    /\ e2e' = Disturbed(s)
    /\ UNCHANGED <<allocated, idleHandlers, injections, prompts>>

(***************************************************************************)
(* markRecovering / markRecoveryComplete                                   *)
(***************************************************************************)
MarkRecovering(s) ==
    /\ VersionBudget(s) + 1 <= MaxVersion
    /\ LET o == StateObj(s)
           h1 == HeapWithState(s)
           h2 == [h1 EXCEPT ![o] = invalidateState(@)]
       IN  /\ heap' = [h2 EXCEPT ![o].mode = "recovering"]
           /\ timers' = invalidateTimers(timers, o, h1[o])
    /\ sessions' = SessionsWithState(s)
    /\ allocated' = AllocatedWithState(s)
    /\ recoveryHeld' = [recoveryHeld EXCEPT ![s] = TRUE]
    /\ e2e' = Disturbed(s)
    /\ UNCHANGED <<idleHandlers, injections, prompts, promptAge, errPending>>

MarkRecoveryComplete(s) ==
    /\ heap' = IF HasState(s) /\ State(s).mode = "recovering"
               THEN [heap EXCEPT ![sessions[s]].mode = "idle"]
               ELSE heap
    /\ recoveryHeld' = [recoveryHeld EXCEPT ![s] = FALSE]
    /\ UNCHANGED <<sessions, allocated, timers, idleHandlers, injections,
                   prompts, promptAge, errPending, e2e>>

(***************************************************************************)
(* The countdown's timeout fires: clearTimer, then executeInjection up to   *)
(* the await of session.todo                                                *)
(***************************************************************************)
\* the throttle as it would be with the interval taken in seconds
ThrottledSeconds(st) ==
    /\ st.elapsed # NoAttempt
    /\ st.elapsed < MIN_INJECTION_INTERVAL_MS \div 1000

Throttled(st) ==
    /\ st.elapsed # NoAttempt
    /\ st.elapsed < MIN_INJECTION_INTERVAL_MS

\* an entry that returns at its first check whatever the version
InjectionEntryAlwaysStale(st, capturedVersion) == "stale"

\* what executeInjection decides before its first await
InjectionEntry(st, capturedVersion) ==
    IF st.version # capturedVersion THEN "stale"
    ELSE IF st.mode # "countingDown" THEN "modeChanged"
    ELSE IF Throttled(st) THEN "throttled"
    ELSE "proceed"

TimerFire(t) ==
    /\ t.left = 0
    /\ LET s == t.sid
           tm1 == clearTimerSet(timers \ {t}, t.obj, heap[t.obj])
           h1 == [heap EXCEPT ![t.obj] = clearTimerState(@)]
           entry == IF HasState(s)
                    THEN InjectionEntry(h1[sessions[s]], t.ver)
                    ELSE "noState"
       IN  /\ timers' = tm1
           /\ heap' = CASE entry = "throttled" ->
                             [h1 EXCEPT ![sessions[s]].mode = "idle"]
                        [] entry = "proceed" ->
                             [h1 EXCEPT ![sessions[s]].mode = "injecting"]
                        [] OTHER -> h1
           /\ injections' = IF entry = "proceed"
                            THEN injections \cup
                                   {[sid |-> s, obj |-> sessions[s], ver |-> t.ver,
                                     pc |-> "todo"]}
                            ELSE injections
           /\ e2e' = [e2e EXCEPT ![s] =
                         IF @.stage = "fetched"
                         THEN [@ EXCEPT !.stage = "elapsed",
                                        !.pass = @ /\ HasState(s)
                                                    /\ ~Throttled(State(s))]
                         ELSE @]
    /\ UNCHANGED <<sessions, allocated, idleHandlers, prompts, promptAge, errPending,
                   recoveryHeld>>

(***************************************************************************)
(* executeInjection, after session.todo returned or failed, up to the call *)
(* of session.prompt                                                       *)
(***************************************************************************)
\* what executeInjection decides between the todo fetch and the prompt call
InjectionCheck(st, capturedVersion, ok, todos, bg, prevMessage) ==
    IF ~ok THEN "fetchFailed"
    ELSE IF st.version # capturedVersion THEN "stale"
    ELSE IF getIncompleteCount(todos) = 0 THEN "noIncomplete"
    ELSE IF bg THEN "background"
    ELSE IF ~agentHasWritePermission(prevMessage) THEN "noWritePermission"
    ELSE IF isPlanModeAgent(prevMessage) THEN "planMode"
    ELSE "prompt"

\* the count the prompt's status line reports as remaining
StatusLine(todos) == getIncompleteCount(todos)

InjectionTodoReturn(i, ok, todos, bg, prevMessage) ==
    /\ i.pc = "todo"
    /\ LET check == InjectionCheck(heap[i.obj], i.ver, ok, todos, bg, prevMessage)
           own == /\ e2e[i.sid].stage = "elapsed"
                  /\ sessions[i.sid] = i.obj
                  /\ heap[i.obj].version = i.ver
       IN  /\ IF check = "prompt"
              THEN /\ heap' = Collected([heap EXCEPT ![i.obj].elapsed = 0],
                                        sessions, injections, timers)
                   /\ prompts' = [prompts EXCEPT ![i.sid] = @ + 1]
                   /\ promptAge' = CollectedAge([promptAge EXCEPT ![i.obj] = 0],
                                                sessions, injections, timers)
                   /\ injections' = (injections \ {i}) \cup {[i EXCEPT !.pc = "prompt"]}
              ELSE /\ injections' = injections \ {i}
                   /\ heap' = Collected([heap EXCEPT ![i.obj].mode = "idle"],
                                        sessions, injections', timers)
                   /\ promptAge' = CollectedAge(promptAge, sessions, injections', timers)
                   /\ UNCHANGED prompts
           /\ e2e' = [e2e EXCEPT ![i.sid] =
                         LET seen == IF check = "prompt" /\ @.stage # "off"
                                     THEN [@ EXCEPT !.sent = @ + 1,
                                                    !.said = StatusLine(todos)]
                                     ELSE @
                         IN  IF ~own THEN seen
                             ELSE IF ~ok \/ getIncompleteCount(todos) = 0 \/ bg
                             THEN E2eOff
                             ELSE [seen EXCEPT
                                     !.stage = IF check = "prompt" THEN "prompted"
                                               ELSE "declined",
                                     !.n = getIncompleteCount(todos),
                                     !.pass = @ /\ agentHasWritePermission(prevMessage)
                                                 /\ ~isPlanModeAgent(prevMessage)]]
    /\ UNCHANGED <<sessions, allocated, timers, idleHandlers, errPending,
                   recoveryHeld>>

(***************************************************************************)
(* executeInjection, after session.prompt returned or threw                *)
(***************************************************************************)
PromptReturn(i, ok) ==
    /\ i.pc = "prompt"
    /\ injections' = injections \ {i}
    /\ heap' = Collected([heap EXCEPT ![i.obj].mode = "idle"],
                         sessions, injections', timers)
    /\ promptAge' = CollectedAge(promptAge, sessions, injections', timers)
    /\ e2e' = [e2e EXCEPT ![i.sid] = IF ~ok THEN E2eOff ELSE @]
    /\ UNCHANGED <<sessions, allocated, timers, idleHandlers, prompts,
                   errPending, recoveryHeld>>

(***************************************************************************)
(* The todo-continuation coordinator                                       *)
(***************************************************************************)
Roles == {"user", "assistant"}

\* An input is enumerated only where the handler reads it: the todo list when
\* the fetch succeeded, the background tasks when some todo is incomplete, the
\* previous message when no background task runs.
TodosRead(read) == IF read THEN TodoLists ELSE {<<>>}
BackgroundRead(read) == IF read THEN BOOLEAN ELSE {FALSE}
PrevMessageRead(read) == IF read THEN PrevMessages ELSE {NoMessage}

(***************************************************************************)
(* The auto-compact executor: executeCompact                               *)
(***************************************************************************)
Absent == -1            \* Map.get(sessionID) is undefined

\* findLargestToolResult: nothing stored, a result below
\* minOutputSizeToTruncate, or one of at least that size
LargestResults == {"none", "small", "large"}
\* getLastMessagePair: null, the last user message alone, or with an assistant
MessagePairs == {"none", "user", "both"}

\* Math.pow for the exponents the executor passes: attempt - 1 is never
\* negative where the delay is computed
RECURSIVE Pow(_, _)
Pow(b, e) == IF e <= 0 THEN 1 ELSE b * Pow(b, e - 1)
Min(a, b) == IF a <= b THEN a ELSE b

\* the delay as it would be without Math.min
uncappedDelay(attempt) == initialDelayMs * Pow(backoffFactor, attempt - 1)

\* the delay of the retry scheduled after a failed summarize
cappedDelay(attempt) ==
    Min(initialDelayMs * Pow(backoffFactor, attempt - 1), maxDelayMs)

\* getOrCreateTruncateState, getOrCreateRetryState, getOrCreateFallbackState
getOrCreate(m, s) == IF m[s] = Absent THEN [m EXCEPT ![s] = 0] ELSE m

Activation(s, pc, hasModel, asst) ==
    [sid |-> s, pc |-> pc, hasModel |-> hasModel, asst |-> asst]
CompactTimer(s, kind, delay, hasModel) ==
    [sid |-> s, kind |-> kind, delay |-> delay, hasModel |-> hasModel]
One(x) == SetToBag({x})

\* the activations that have acquired the guard and not yet released it
GuardedPcs == {"truncateToast", "summarizeToast", "summarize", "messages",
               "revertToast", "revertAssistant", "revertUser"}
Guarded(s) ==
    {a \in BagToSet(activations) : a.sid = s /\ a.pc \in GuardedPcs}
NumGuarded(s) ==
    LET RECURSIVE Sum(_)
        Sum(S) == IF S = {} THEN 0
                  ELSE LET a == CHOOSE x \in S : TRUE
                       IN  CopiesIn(a, activations) + Sum(S \ {a})
    IN  Sum(Guarded(s))

CompactInit ==
    /\ compactionInProgress = {}
    /\ pendingCompact = {}
    /\ errorDataBySession = {}
    /\ truncateStateBySession = [s \in SessionIDs |-> Absent]
    /\ retryStateBySession = [s \in SessionIDs |-> Absent]
    /\ fallbackStateBySession = [s \in SessionIDs |-> Absent]
    /\ activations = EmptyBag
    /\ compactTimers = EmptyBag
    /\ truncatedOutputs = [s \in SessionIDs |-> 0]
    /\ invoked = [s \in SessionIDs |-> 0]
    /\ reinvoked = [s \in SessionIDs |-> 0]
    /\ calls = [s \in SessionIDs |-> <<>>]
    /\ lastCall = [s \in SessionIDs |-> "none"]

\* a history that records the call c ahead of the calls made before it
CalledOutOfOrder(s, c) == calls' = [calls EXCEPT ![s] = <<c>> \o @]

\* the invocation of session s that holds the guard makes the call c
Called(s, c) == calls' = [calls EXCEPT ![s] = Append(@, c)]

\* a give-up that forgets to delete the truncate record
GiveUpKeepsTruncate(s, rest) ==
    /\ pendingCompact' = pendingCompact \ {s}
    /\ errorDataBySession' = errorDataBySession \ {s}
    /\ retryStateBySession' = [retryStateBySession EXCEPT ![s] = Absent]
    /\ fallbackStateBySession' = [fallbackStateBySession EXCEPT ![s] = Absent]
    /\ truncateStateBySession' = getOrCreate(truncateStateBySession, s)
    /\ compactionInProgress' = compactionInProgress \ {s}
    /\ activations' = rest (+) One(Activation(s, "failureToast", FALSE, FALSE))

\* a give-up that forgets to delete the retry record
GiveUpKeepsRetry(s, rest) ==
    /\ pendingCompact' = pendingCompact \ {s}
    /\ errorDataBySession' = errorDataBySession \ {s}
    /\ retryStateBySession' = getOrCreate(retryStateBySession, s)
    /\ fallbackStateBySession' = [fallbackStateBySession EXCEPT ![s] = Absent]
    /\ truncateStateBySession' = [truncateStateBySession EXCEPT ![s] = Absent]
    /\ compactionInProgress' = compactionInProgress \ {s}
    /\ activations' = rest (+) One(Activation(s, "failureToast", FALSE, FALSE))

\* clearSessionState, followed by the await of the failure toast
GiveUp(s, rest) ==
    /\ pendingCompact' = pendingCompact \ {s}
    /\ errorDataBySession' = errorDataBySession \ {s}
    /\ retryStateBySession' = [retryStateBySession EXCEPT ![s] = Absent]
    /\ fallbackStateBySession' = [fallbackStateBySession EXCEPT ![s] = Absent]
    /\ truncateStateBySession' = [truncateStateBySession EXCEPT ![s] = Absent]
    /\ compactionInProgress' = compactionInProgress \ {s}
    /\ activations' = rest (+) One(Activation(s, "failureToast", FALSE, FALSE))

\* the truncate tier as it would be if it were never entered
tryTruncateNever(attempt, largest) == FALSE

\* the truncate tier is entered: attempts remain and the largest stored tool
\* result has at least minOutputSizeToTruncate
tryTruncate(attempt, largest) ==
    attempt < maxTruncateAttempts /\ largest = "large"

\* the guard of executeCompact
GuardNeverHeld(s) == FALSE

GuardHeld(s) == s \in compactionInProgress

\* executeCompact(sessionID, msg, ...) from its entry to its first await;
\* tm is the bag of timers left pending by the caller
executeCompact(s, hasModel, largest, truncated, tm) ==
    IF GuardHeld(s)
    THEN /\ compactTimers' = tm
         /\ lastCall' = [lastCall EXCEPT ![s] = "blocked"]
         /\ UNCHANGED <<compactionInProgress, pendingCompact, errorDataBySession,
                        truncateStateBySession, retryStateBySession,
                        fallbackStateBySession, activations, truncatedOutputs,
                        calls>>
    ELSE LET ts == getOrCreate(truncateStateBySession, s)
             truncates == tryTruncate(ts[s], largest) /\ truncated
             rs == getOrCreate(retryStateBySession, s)
             retries == ~truncates /\ rs[s] < maxAttempts
             rs1 == IF retries THEN [rs EXCEPT ![s] = @ + 1] ELSE rs
             summarizes == retries /\ hasModel
             fs == getOrCreate(fallbackStateBySession, s)
             reverts == ~truncates /\ ~summarizes /\ fs[s] < maxRevertAttempts
             exhausted == /\ ts[s] >= maxTruncateAttempts
                          /\ rs[s] >= maxAttempts
                          /\ fs[s] >= maxRevertAttempts
             tried == IF tryTruncate(ts[s], largest)
                      THEN <<"truncateToolResult">> ELSE <<>>
         IN  /\ compactTimers' = tm
             /\ calls' = [calls EXCEPT ![s] = tried \o
                    <<IF truncates THEN "toast:truncate"
                      ELSE IF summarizes THEN "toast:summarize"
                      ELSE IF reverts THEN "messages"
                      ELSE "toast:failure">>]
             /\ lastCall' = [lastCall EXCEPT ![s] =
                                IF exhausted THEN "exhausted" ELSE "entered"]
             /\ truncatedOutputs' = [truncatedOutputs EXCEPT ![s] =
                                        IF truncates THEN @ + 1 ELSE @]
             /\ IF truncates
                THEN /\ compactionInProgress' = compactionInProgress \cup {s}
                     /\ truncateStateBySession' = [ts EXCEPT ![s] = @ + 1]
                     /\ activations' = activations (+)
                            One(Activation(s, "truncateToast", hasModel, FALSE))
                     /\ UNCHANGED <<pendingCompact, errorDataBySession,
                                    retryStateBySession, fallbackStateBySession>>
                ELSE IF summarizes
                THEN /\ compactionInProgress' = compactionInProgress \cup {s}
                     /\ truncateStateBySession' = ts
                     /\ retryStateBySession' = rs1
                     /\ activations' = activations (+)
                            One(Activation(s, "summarizeToast", hasModel, FALSE))
                     /\ UNCHANGED <<pendingCompact, errorDataBySession,
                                    fallbackStateBySession>>
                ELSE IF reverts
                THEN /\ compactionInProgress' = compactionInProgress \cup {s}
                     /\ truncateStateBySession' = ts
                     /\ retryStateBySession' = rs1
                     /\ fallbackStateBySession' = fs
                     /\ activations' = activations (+)
                            One(Activation(s, "messages", hasModel, FALSE))
                     /\ UNCHANGED <<pendingCompact, errorDataBySession>>
                ELSE GiveUp(s, activations)

\* what executeCompact reads on entry
LargestRead(s) ==
    IF ~GuardHeld(s) /\ getOrCreate(truncateStateBySession, s)[s] < maxTruncateAttempts
    THEN LargestResults ELSE {"none"}
TruncatedRead(largest) == IF largest = "large" THEN BOOLEAN ELSE {FALSE}

\* the overflow detector records the error before it invokes the executor
OverflowDetected(s) ==
    /\ s \notin pendingCompact \/ s \notin errorDataBySession
    /\ pendingCompact' = pendingCompact \cup {s}
    /\ errorDataBySession' = errorDataBySession \cup {s}
    /\ UNCHANGED <<compactionInProgress, truncateStateBySession,
                   retryStateBySession, fallbackStateBySession, activations,
                   compactTimers, truncatedOutputs, invoked, reinvoked, calls,
                   lastCall>>

\* an external invocation of executeCompact
Invoke(s, hasModel, largest, truncated) ==
    /\ invoked[s] < MaxInvocations
    /\ invoked' = [invoked EXCEPT ![s] = @ + 1]
    /\ UNCHANGED reinvoked
    /\ executeCompact(s, hasModel, largest, truncated, compactTimers)

\* a timeout of executeCompact fires
CompactTimerFire(t, largest, truncated) ==
    /\ BagIn(t, compactTimers)
    /\ IF t.kind = "retry"
       THEN /\ reinvoked' = [reinvoked EXCEPT ![t.sid] = @ + 1]
            /\ executeCompact(t.sid, t.hasModel, largest, truncated,
                              compactTimers (-) One(t))
       ELSE \* session.prompt_async "Continue"
            /\ compactTimers' = compactTimers (-) One(t)
            /\ UNCHANGED <<compactionInProgress, pendingCompact, errorDataBySession,
                           truncateStateBySession, retryStateBySession,
                           fallbackStateBySession, activations, truncatedOutputs,
                           reinvoked, calls, lastCall>>
    /\ UNCHANGED invoked

\* a truncate tier that returns without releasing the guard
TruncateToastReturnKeepsGuard(a) ==
    /\ BagIn(a, activations) /\ a.pc = "truncateToast"
    /\ compactTimers' = compactTimers (+)
           One(CompactTimer(a.sid, "continue", CONTINUE_DELAY_MS, FALSE))
    /\ activations' = activations (-) One(a)
    /\ UNCHANGED <<compactionInProgress, pendingCompact, errorDataBySession,
                   truncateStateBySession, retryStateBySession,
                   fallbackStateBySession, truncatedOutputs,
                   invoked, reinvoked, calls, lastCall>>

\* the truncate tier's toast returned
TruncateToastReturn(a) ==
    /\ BagIn(a, activations) /\ a.pc = "truncateToast"
    /\ compactionInProgress' = compactionInProgress \ {a.sid}
    /\ compactTimers' = compactTimers (+)
           One(CompactTimer(a.sid, "continue", CONTINUE_DELAY_MS, FALSE))
    /\ activations' = activations (-) One(a)
    /\ UNCHANGED <<pendingCompact, errorDataBySession, truncateStateBySession,
                   retryStateBySession, fallbackStateBySession, truncatedOutputs,
                   invoked, reinvoked, calls, lastCall>>

\* the summarize tier's toast returned: session.summarize is called
SummarizeToastReturn(a) ==
    /\ BagIn(a, activations) /\ a.pc = "summarizeToast"
    /\ activations' = (activations (-) One(a)) (+)
                         One([a EXCEPT !.pc = "summarize"])
    /\ UNCHANGED <<compactionInProgress, pendingCompact, errorDataBySession,
                   truncateStateBySession, retryStateBySession,
                   fallbackStateBySession, compactTimers, truncatedOutputs,
                   invoked, reinvoked, lastCall>>
    /\ Called(a.sid, "summarize")

\* a summarize tier whose catch block schedules nothing
SummarizeReturnSwallows(a, ok) ==
    /\ BagIn(a, activations) /\ a.pc = "summarize"
    /\ activations' = activations (-) One(a)
    /\ IF ok
       THEN /\ pendingCompact' = pendingCompact \ {a.sid}
            /\ errorDataBySession' = errorDataBySession \ {a.sid}
            /\ retryStateBySession' = [retryStateBySession EXCEPT ![a.sid] = Absent]
            /\ fallbackStateBySession' =
                   [fallbackStateBySession EXCEPT ![a.sid] = Absent]
            /\ truncateStateBySession' =
                   [truncateStateBySession EXCEPT ![a.sid] = Absent]
            /\ compactionInProgress' = compactionInProgress \ {a.sid}
            /\ compactTimers' = compactTimers (+)
                   One(CompactTimer(a.sid, "continue", CONTINUE_DELAY_MS, FALSE))
       ELSE /\ compactionInProgress' = compactionInProgress \ {a.sid}
            /\ UNCHANGED <<pendingCompact, errorDataBySession,
                           truncateStateBySession, retryStateBySession,
                           fallbackStateBySession, compactTimers>>
    /\ UNCHANGED <<truncatedOutputs, invoked, reinvoked, calls, lastCall>>

\* session.summarize returned or threw
SummarizeReturn(a, ok) ==
    /\ BagIn(a, activations) /\ a.pc = "summarize"
    /\ activations' = activations (-) One(a)
    /\ IF ok
       THEN /\ pendingCompact' = pendingCompact \ {a.sid}
            /\ errorDataBySession' = errorDataBySession \ {a.sid}
            /\ retryStateBySession' = [retryStateBySession EXCEPT ![a.sid] = Absent]
            /\ fallbackStateBySession' =
                   [fallbackStateBySession EXCEPT ![a.sid] = Absent]
            /\ truncateStateBySession' =
                   [truncateStateBySession EXCEPT ![a.sid] = Absent]
            /\ compactionInProgress' = compactionInProgress \ {a.sid}
            /\ compactTimers' = compactTimers (+)
                   One(CompactTimer(a.sid, "continue", CONTINUE_DELAY_MS, FALSE))
       ELSE /\ compactionInProgress' = compactionInProgress \ {a.sid}
            /\ compactTimers' = compactTimers (+)
                   One(CompactTimer(a.sid, "retry",
                                    cappedDelay(retryStateBySession[a.sid]),
                                    a.hasModel))
            /\ UNCHANGED <<pendingCompact, errorDataBySession,
                           truncateStateBySession, retryStateBySession,
                           fallbackStateBySession>>
    /\ UNCHANGED <<truncatedOutputs, invoked, reinvoked, calls, lastCall>>

\* getLastMessagePair returned
MessagesReturn(a, pair) ==
    /\ BagIn(a, activations) /\ a.pc = "messages"
    /\ IF pair = "none"
       THEN GiveUp(a.sid, activations (-) One(a))
       ELSE /\ activations' = (activations (-) One(a)) (+)
                   One([a EXCEPT !.pc = "revertToast", !.asst = (pair = "both")])
            /\ UNCHANGED <<compactionInProgress, pendingCompact, errorDataBySession,
                           truncateStateBySession, retryStateBySession,
                           fallbackStateBySession>>
    /\ Called(a.sid, IF pair = "none" THEN "toast:failure" ELSE "toast:revert")
    /\ UNCHANGED <<compactTimers, truncatedOutputs, invoked, reinvoked, lastCall>>

\* the revert tier's toast returned: the first session.revert is called
RevertToastReturn(a) ==
    /\ BagIn(a, activations) /\ a.pc = "revertToast"
    /\ activations' = (activations (-) One(a)) (+)
           One([a EXCEPT !.pc = IF a.asst THEN "revertAssistant" ELSE "revertUser"])
    /\ UNCHANGED <<compactionInProgress, pendingCompact, errorDataBySession,
                   truncateStateBySession, retryStateBySession,
                   fallbackStateBySession, compactTimers, truncatedOutputs,
                   invoked, reinvoked, lastCall>>
    /\ Called(a.sid, "revert")

\* session.revert of the assistant message returned or threw
RevertAssistantReturn(a, ok) ==
    /\ BagIn(a, activations) /\ a.pc = "revertAssistant"
    /\ IF ok
       THEN /\ activations' = (activations (-) One(a)) (+)
                   One([a EXCEPT !.pc = "revertUser"])
            /\ UNCHANGED <<compactionInProgress, pendingCompact, errorDataBySession,
                           truncateStateBySession, retryStateBySession,
                           fallbackStateBySession>>
       ELSE GiveUp(a.sid, activations (-) One(a))
    /\ Called(a.sid, IF ok THEN "revert" ELSE "toast:failure")
    /\ UNCHANGED <<compactTimers, truncatedOutputs, invoked, reinvoked, lastCall>>

\* a successful revert that leaves truncateAttempt as it is
RevertUserReturnNoReset(a, ok) ==
    /\ BagIn(a, activations) /\ a.pc = "revertUser"
    /\ IF ok
       THEN /\ fallbackStateBySession' =
                   [fallbackStateBySession EXCEPT ![a.sid] = @ + 1]
            /\ retryStateBySession' = [retryStateBySession EXCEPT ![a.sid] = 0]
            /\ compactionInProgress' = compactionInProgress \ {a.sid}
            /\ compactTimers' = compactTimers (+)
                   One(CompactTimer(a.sid, "retry", CHAIN_RETRY_DELAY_MS, a.hasModel))
            /\ activations' = activations (-) One(a)
            /\ UNCHANGED <<pendingCompact, errorDataBySession,
                           truncateStateBySession>>
       ELSE /\ GiveUp(a.sid, activations (-) One(a))
            /\ UNCHANGED compactTimers
    /\ IF ok THEN UNCHANGED calls ELSE Called(a.sid, "toast:failure")
    /\ UNCHANGED <<truncatedOutputs, invoked, reinvoked, lastCall>>

\* a successful revert that does not count itself
RevertUserReturnNoCount(a, ok) ==
    /\ BagIn(a, activations) /\ a.pc = "revertUser"
    /\ IF ok
       THEN /\ retryStateBySession' = [retryStateBySession EXCEPT ![a.sid] = 0]
            /\ truncateStateBySession' = [truncateStateBySession EXCEPT ![a.sid] = 0]
            /\ compactionInProgress' = compactionInProgress \ {a.sid}
            /\ compactTimers' = compactTimers (+)
                   One(CompactTimer(a.sid, "retry", CHAIN_RETRY_DELAY_MS, a.hasModel))
            /\ activations' = activations (-) One(a)
            /\ UNCHANGED <<pendingCompact, errorDataBySession,
                           fallbackStateBySession>>
       ELSE /\ GiveUp(a.sid, activations (-) One(a))
            /\ UNCHANGED compactTimers
    /\ IF ok THEN UNCHANGED calls ELSE Called(a.sid, "toast:failure")
    /\ UNCHANGED <<truncatedOutputs, invoked, reinvoked, lastCall>>

\* session.revert of the user message returned or threw
RevertUserReturn(a, ok) ==
    /\ BagIn(a, activations) /\ a.pc = "revertUser"
    /\ IF ok
       THEN /\ fallbackStateBySession' =
                   [fallbackStateBySession EXCEPT ![a.sid] = @ + 1]
            /\ retryStateBySession' = [retryStateBySession EXCEPT ![a.sid] = 0]
            /\ truncateStateBySession' = [truncateStateBySession EXCEPT ![a.sid] = 0]
            /\ compactionInProgress' = compactionInProgress \ {a.sid}
            /\ compactTimers' = compactTimers (+)
                   One(CompactTimer(a.sid, "retry", CHAIN_RETRY_DELAY_MS, a.hasModel))
            /\ activations' = activations (-) One(a)
            /\ UNCHANGED <<pendingCompact, errorDataBySession>>
       ELSE /\ GiveUp(a.sid, activations (-) One(a))
            /\ UNCHANGED compactTimers
    /\ IF ok THEN UNCHANGED calls ELSE Called(a.sid, "toast:failure")
    /\ UNCHANGED <<truncatedOutputs, invoked, reinvoked, lastCall>>

\* the failure toast returned: executeCompact returns
FailureToastReturn(a) ==
    /\ BagIn(a, activations) /\ a.pc = "failureToast"
    /\ activations' = activations (-) One(a)
    /\ UNCHANGED <<compactionInProgress, pendingCompact, errorDataBySession,
                   truncateStateBySession, retryStateBySession,
                   fallbackStateBySession, compactTimers, truncatedOutputs,
                   invoked, reinvoked, calls, lastCall>>

(***************************************************************************)
(* The preemptive compaction hook                                          *)
(***************************************************************************)
\* the values of ./constants, in ms, tokens and percent
COMPACTION_COOLDOWN_MS == 2
MIN_TOKENS_FOR_COMPACTION == 50000
DEFAULT_THRESHOLD == 80

MaxClock == 6
MaxPreemptHandlers == 2

\* the table of context limits, in the order of its keys; a model id is the
\* sequence of its characters
MODEL_CONTEXT_LIMITS ==
    <<
       [key |-> <<"c", "l", "a", "u", "d", "e", "-", "o", "p", "u", "s", "-", "4">>,
        limit |-> 200000],
       [key |-> <<"c", "l", "a", "u", "d", "e", "-", "s", "o", "n", "n", "e", "t", "-", "4">>,
        limit |-> 200000],
       [key |-> <<"c", "l", "a", "u", "d", "e", "-", "h", "a", "i", "k", "u", "-", "4">>,
        limit |-> 200000],
       [key |-> <<"g", "p", "t", "-", "4", "o">>,
        limit |-> 128000],
       [key |-> <<"g", "p", "t", "-", "4", "o", "-", "m", "i", "n", "i">>,
        limit |-> 128000],
       [key |-> <<"g", "p", "t", "-", "4", "-", "t", "u", "r", "b", "o">>,
        limit |-> 128000],
       [key |-> <<"g", "p", "t", "-", "4">>,
        limit |-> 8192],
       [key |-> <<"g", "p", "t", "-", "5">>,
        limit |-> 1000000],
       [key |-> <<"o", "1">>,
        limit |-> 200000],
       [key |-> <<"o", "1", "-", "m", "i", "n", "i">>,
        limit |-> 128000],
       [key |-> <<"o", "1", "-", "p", "r", "e", "v", "i", "e", "w">>,
        limit |-> 128000],
       [key |-> <<"o", "3">>,
        limit |-> 200000],
       [key |-> <<"o", "3", "-", "m", "i", "n", "i">>,
        limit |-> 200000],
       [key |-> <<"g", "e", "m", "i", "n", "i", "-", "2", ".", "0", "-", "f", "l", "a", "s", "h">>,
        limit |-> 1000000],
       [key |-> <<"g", "e", "m", "i", "n", "i", "-", "2", ".", "5", "-", "f", "l", "a", "s", "h">>,
        limit |-> 1000000],
       [key |-> <<"g", "e", "m", "i", "n", "i", "-", "2", ".", "5", "-", "p", "r", "o">>,
        limit |-> 2000000],
       [key |-> <<"g", "e", "m", "i", "n", "i", "-", "3", "-", "p", "r", "o">>,
        limit |-> 2000000]
    >>

\* String.prototype.includes
includes(str, key) ==
    \E i \in 0..(Len(str) - Len(key)) : SubSeq(str, i + 1, i + Len(key)) = key

getContextLimit(modelID) ==
    LET hits == {i \in 1..Len(MODEL_CONTEXT_LIMITS) :
                    includes(modelID, MODEL_CONTEXT_LIMITS[i].key)}
    IN  IF hits = {} THEN 200000
        ELSE MODEL_CONTEXT_LIMITS[CHOOSE i \in hits : \A j \in hits : i <= j].limit

\* a MessageInfo: tokens is absent when hasTokens is FALSE, providerID is only
\* known to be set or not, an absent modelID is the empty string
MessageInfo(role, finish, summary, hasTokens, input, cacheRead, output, providerID, modelID) ==
    [role |-> role, finish |-> finish, summary |-> summary,
     hasTokens |-> hasTokens, input |-> input, cacheRead |-> cacheRead,
     output |-> output, providerID |-> providerID, modelID |-> modelID]

SonnetID == <<"c", "l", "a", "u", "d", "e", "-", "s", "o", "n", "n", "e", "t", "-", "4", "-", "5">>
Gpt4ID == <<"g", "p", "t", "-", "4">>

MessageInfos ==
    { MessageInfo("assistant", TRUE, FALSE, TRUE, 150000, 20000, 10000, TRUE, SonnetID),
      MessageInfo("assistant", TRUE, FALSE, TRUE, 60000, 0, 0, TRUE, Gpt4ID),
      MessageInfo("assistant", TRUE, FALSE, TRUE, 60000, 0, 0, TRUE, SonnetID),
      MessageInfo("assistant", TRUE, FALSE, TRUE, 10000, 0, 0, TRUE, SonnetID),
      MessageInfo("assistant", TRUE, FALSE, FALSE, 0, 0, 0, TRUE, SonnetID),
      MessageInfo("assistant", TRUE, TRUE, TRUE, 150000, 20000, 10000, TRUE, SonnetID),
      MessageInfo("assistant", TRUE, FALSE, TRUE, 150000, 20000, 10000, FALSE, SonnetID),
      MessageInfo("assistant", TRUE, FALSE, TRUE, 150000, 20000, 10000, TRUE, <<>>),
      MessageInfo("assistant", FALSE, FALSE, TRUE, 150000, 20000, 10000, TRUE, SonnetID),
      MessageInfo("user", FALSE, FALSE, FALSE, 0, 0, 0, FALSE, <<>>) }

\* what session.messages can return: up to two messages
MessageLists ==
    {<<>>} \cup {<<m>> : m \in MessageInfos}
           \cup {<<m1, m2>> : m1 \in MessageInfos, m2 \in MessageInfos}

IsAssistant(m) == m.role = "assistant"
Assistants(messages) == SelectSeq(messages, IsAssistant)

\* a suspended handler of the hook and the call it awaits
Handler(s, pc) == [sid |-> s, pc |-> pc]

CompactingPcs == {"toast", "callback", "summarize", "successToast"}

PreemptInit(callback) ==
    /\ preemptiveInProgress = {}
    /\ lastCompactionTime = [s \in SessionIDs |-> Absent]
    /\ now = COMPACTION_COOLDOWN_MS
    /\ onBeforeSummarize = callback
    /\ handlers = EmptyBag
    /\ sessionDeleted = [s \in SessionIDs |-> FALSE]
    /\ lastSummarizeStart = [s \in SessionIDs |-> Absent]
    /\ lastCheck = [s \in SessionIDs |-> "none"]

\* a cooldown check that never skips
InCooldownNever(s) == FALSE

\* Date.now() - (lastCompactionTime.get(sessionID) ?? 0) < COMPACTION_COOLDOWN_MS
InCooldown(s) ==
    now - (IF lastCompactionTime[s] = Absent THEN 0 ELSE lastCompactionTime[s])
        < COMPACTION_COOLDOWN_MS

totalUsed(info) == info.input + info.cacheRead + info.output

\* the return of checkAndTriggerCompaction that is taken
CheckOutcome(s, info) ==
    IF s \in preemptiveInProgress THEN "inProgress"
    ELSE IF InCooldown(s) THEN "cooldown"
    ELSE IF info.summary THEN "summary"
    ELSE IF ~info.hasTokens THEN "noTokens"
    ELSE IF totalUsed(info) < MIN_TOKENS_FOR_COMPACTION THEN "belowMin"
    ELSE IF totalUsed(info) * 100 < DEFAULT_THRESHOLD * getContextLimit(info.modelID)
         THEN "belowThreshold"
    ELSE IF ~info.providerID \/ info.modelID = <<>> THEN "noProvider"
    ELSE "triggered"

\* checkAndTriggerCompaction(sessionID, lastAssistant) up to its first await;
\* rest is the bag of handlers left suspended by the caller
checkAndTriggerCompaction(s, info, rest) ==
    LET outcome == CheckOutcome(s, info)
    IN  /\ lastCheck' = [lastCheck EXCEPT ![s] = outcome]
        /\ IF outcome = "triggered"
           THEN /\ preemptiveInProgress' = preemptiveInProgress \cup {s}
                /\ lastCompactionTime' = [lastCompactionTime EXCEPT ![s] = now]
                /\ handlers' = rest (+) One(Handler(s, "toast"))
           ELSE IF outcome = "noProvider"
           THEN /\ preemptiveInProgress' = preemptiveInProgress \ {s}
                /\ lastCompactionTime' = [lastCompactionTime EXCEPT ![s] = now]
                /\ handlers' = rest
           ELSE /\ handlers' = rest
                /\ UNCHANGED <<preemptiveInProgress, lastCompactionTime>>
        /\ UNCHANGED <<now, onBeforeSummarize, sessionDeleted, lastSummarizeStart>>

\* the finally block of checkAndTriggerCompaction: the handler ends
Finally(h) ==
    /\ preemptiveInProgress' = preemptiveInProgress \ {h.sid}
    /\ handlers' = handlers (-) One(h)
    /\ UNCHANGED <<lastCompactionTime, now, onBeforeSummarize, sessionDeleted,
                   lastSummarizeStart, lastCheck>>

\* session.summarize is called
SummarizeCalled(h) ==
    /\ handlers' = (handlers (-) One(h)) (+) One([h EXCEPT !.pc = "summarize"])
    /\ lastSummarizeStart' = [lastSummarizeStart EXCEPT ![h.sid] = now]
    /\ UNCHANGED <<preemptiveInProgress, lastCompactionTime, now,
                   onBeforeSummarize, sessionDeleted, lastCheck>>

\* event message.updated
PreemptMessageUpdated(s, info) ==
    /\ ~sessionDeleted[s]
    /\ IF info.role = "assistant" /\ info.finish
       THEN checkAndTriggerCompaction(s, info, handlers)
       ELSE UNCHANGED preemptVars

\* event session.idle: session.messages is awaited
PreemptSessionIdle(s) ==
    /\ ~sessionDeleted[s]
    /\ CopiesIn(Handler(s, "messages"), handlers) < MaxPreemptHandlers
    /\ handlers' = handlers (+) One(Handler(s, "messages"))
    /\ UNCHANGED <<preemptiveInProgress, lastCompactionTime, now,
                   onBeforeSummarize, sessionDeleted, lastSummarizeStart, lastCheck>>

\* session.messages of the idle handler returned or threw
PreemptMessagesReturn(h, ok, messages) ==
    /\ BagIn(h, handlers) /\ h.pc = "messages"
    /\ LET assistants == Assistants(messages)
       IN  IF ~ok \/ Len(assistants) = 0
           THEN /\ handlers' = handlers (-) One(h)
                /\ UNCHANGED <<preemptiveInProgress, lastCompactionTime, now,
                               onBeforeSummarize, sessionDeleted,
                               lastSummarizeStart, lastCheck>>
           ELSE checkAndTriggerCompaction(h.sid, assistants[Len(assistants)],
                                          handlers (-) One(h))

\* a hook that calls session.summarize without awaiting the callback
PreemptToastReturnSkipsCallback(h) ==
    /\ BagIn(h, handlers) /\ h.pc = "toast"
    /\ SummarizeCalled(h)

\* the "Preemptive Compaction" toast returned (its failure is caught)
PreemptToastReturn(h) ==
    /\ BagIn(h, handlers) /\ h.pc = "toast"
    /\ IF onBeforeSummarize
       THEN /\ handlers' = (handlers (-) One(h)) (+) One([h EXCEPT !.pc = "callback"])
            /\ UNCHANGED <<preemptiveInProgress, lastCompactionTime, now,
                           onBeforeSummarize, sessionDeleted, lastSummarizeStart,
                           lastCheck>>
       ELSE SummarizeCalled(h)

\* onBeforeSummarize returned or threw
CallbackReturn(h, ok) ==
    /\ BagIn(h, handlers) /\ h.pc = "callback"
    /\ IF ok THEN SummarizeCalled(h) ELSE Finally(h)

\* session.summarize of the hook returned or threw
PreemptSummarizeReturn(h, ok) ==
    /\ BagIn(h, handlers) /\ h.pc = "summarize"
    /\ IF ok
       THEN /\ handlers' = (handlers (-) One(h)) (+)
                              One([h EXCEPT !.pc = "successToast"])
            /\ UNCHANGED <<preemptiveInProgress, lastCompactionTime, now,
                           onBeforeSummarize, sessionDeleted, lastSummarizeStart,
                           lastCheck>>
       ELSE Finally(h)

\* the "Compaction Complete" toast returned (its failure is caught)
SuccessToastReturn(h) ==
    /\ BagIn(h, handlers) /\ h.pc = "successToast"
    /\ Finally(h)

\* event session.deleted
PreemptSessionDeleted(s) ==
    /\ ~sessionDeleted[s]
    /\ lastCompactionTime' = [lastCompactionTime EXCEPT ![s] = Absent]
    /\ preemptiveInProgress' = preemptiveInProgress \ {s}
    /\ sessionDeleted' = [sessionDeleted EXCEPT ![s] = TRUE]
    /\ lastSummarizeStart' = [lastSummarizeStart EXCEPT ![s] = Absent]
    /\ UNCHANGED <<now, onBeforeSummarize, handlers, lastCheck>>

\* time passes
ClockTick ==
    /\ now < MaxClock
    /\ now' = now + 1
    /\ UNCHANGED <<preemptiveInProgress, lastCompactionTime, onBeforeSummarize,
                   handlers, sessionDeleted, lastSummarizeStart, lastCheck>>

(***************************************************************************)
(* getContextLimit as a function of the model id                           *)
(***************************************************************************)
\* model ids a provider may report: a table key or an unknown name, behind
\* an optional provider prefix and before an optional variant suffix
ModelIDs ==
    LET TableKeys == {MODEL_CONTEXT_LIMITS[i].key : i \in 1..Len(MODEL_CONTEXT_LIMITS)}
        IdPrefixes == {<<>>, <<"x", "/">>}
        IdSuffixes == {<<>>, <<"-", "2">>, <<"-", "m", "i", "n", "i">>}
    IN  {p \o k \o sfx : p \in IdPrefixes,
                         k \in TableKeys \cup {<<"l", "l", "a", "m", "a">>},
                         sfx \in IdSuffixes}

\* a call of getContextLimit(modelID)
LookupLimit ==
    /\ queriedLimit = Absent
    /\ queriedLimit' = getContextLimit(queriedModelID)
    /\ UNCHANGED <<queriedModelID, nearestAgent, call, pendingFilePaths, boulder, idleVars>>
    /\ UNCHANGED <<todoVars, compactVars, preemptVars>>


(***************************************************************************)
(* The sisyphus-orchestrator hook on the tool-call pipeline                *)
(*                                                                         *)
(* A path is the sequence of its characters. A prompt, a message and a     *)
(* tool result are sequences of pieces of text, of which the markers the   *)
(* hooks search for are pieces of their own: no marker straddles two       *)
(* pieces, since what the hooks append starts with a line break.           *)
(***************************************************************************)
MaxCalls == 2       \* tool calls the host makes
MaxRuns == 2        \* times the before hooks are run over the same args

\* what the message store reports as the nearest agent
Agents == {"none", "orchestrator-sisyphus", "Prometheus (Planner)", "Sisyphus"}

WRITE_EDIT_TOOLS == {"Write", "Edit", "write", "edit"}

DotSisyphus == <<".", "s", "i", "s", "y", "p", "h", "u", "s">>

\* /\.sisyphus[/\\]/.test(filePath)
isSisyphusPath(filePath) ==
    \/ includes(filePath, DotSisyphus \o <<"/">>)
    \/ includes(filePath, DotSisyphus \o <<"\\">>)

isCallerOrchestrator(agent) == agent = "orchestrator-sisyphus"

SingleTaskMarker == "[SYSTEM DIRECTIVE - SINGLE TASK ONLY]"
\* the marker of the guard's read-only warning
SYSTEM_DIRECTIVE_PREFIX == "[SYSTEM DIRECTIVE: OH-MY-OPENCODE"
SINGLE_TASK_DIRECTIVE == <<"\n\n", SingleTaskMarker, "\n\n**STOP. ...**\n">>

\* a tool call as its hooks see it; ran: the before hooks that have run on it,
\* nth: history, the number of the call, given: history, the prompt as the host passed it, actingAgent: history, the
\* nearest agent when the orchestrator's hook ran
ToolCall(tool, callID, filePath, prompt) ==
    [tool |-> tool, callID |-> callID, filePath |-> filePath, prompt |-> prompt,
     given |-> prompt, message |-> <<>>, output |-> <<>>, phase |-> "before", ran |-> {},
     runs |-> 1, nth |-> 0, actingAgent |-> "none", rejected |-> "no"]

NoToolCall == [ToolCall("none", 0, <<>>, <<>>) EXCEPT !.phase = "idle"]

\* the calls the host makes: a path (<<>>: none) on the write and read tools,
\* a prompt (<<>>: none or empty) on a delegation, with or without a callID;
\* the host numbers its calls
ToolCalls(callID) ==
    LET sep == {<<"/">>, <<"\\">>}
        xts == <<"x", ".", "t", "s">>
        xmd == <<"x", ".", "m", "d">>
        Paths ==
            {<<>>, xts, <<"s", "/">> \o xts}
              \cup {DotSisyphus \o p \o xmd : p \in sep}
              \cup {DotSisyphus \o p \o <<".", ".">> \o q \o xts : p \in sep, q \in sep}
              \cup {<<"w", "/", ".", "S", "I", "S", "Y", "P", "H", "U", "S", "/">> \o xmd}
        Pieces == {"text", SingleTaskMarker, SYSTEM_DIRECTIVE_PREFIX}
        Prompts ==
            {<<>>} \cup {<<a>> : a \in Pieces} \cup {<<a, b>> : a \in Pieces, b \in Pieces}
    IN  {[ToolCall(tool, id, path, <<>>) EXCEPT !.nth = callID] :
            tool \in {"Write", "edit", "Read"}, id \in {0, callID}, path \in Paths}
          \cup {[ToolCall(tool, id, <<>>, prompt) EXCEPT !.nth = callID] :
                  tool \in {"sisyphus_task", "task"}, id \in {0, callID},
                  prompt \in Prompts}

lacksDirectiveAlways(prompt) == prompt # <<>>

\* prompt && !prompt.includes("[SYSTEM DIRECTIVE - SINGLE TASK ONLY]")
lacksDirective(prompt) == prompt # <<>> /\ ~includes(prompt, <<SingleTaskMarker>>)

\* hook["tool.execute.before"](input, output)
ToolExecuteBefore ==
    /\ call.phase = "before"
    /\ "orchestrator" \notin call.ran
    /\ LET c == [call EXCEPT !.ran = @ \cup {"orchestrator"},
                             !.actingAgent = nearestAgent]
           filePath == call.filePath
           prompt == call.prompt
       IN  IF ~isCallerOrchestrator(nearestAgent)
           THEN call' = c /\ UNCHANGED pendingFilePaths
           ELSE IF call.tool \in WRITE_EDIT_TOOLS
           THEN IF filePath # <<>> /\ ~isSisyphusPath(filePath)
                THEN /\ pendingFilePaths' =
                          IF call.callID # 0
                          THEN [pendingFilePaths EXCEPT ![call.callID] = filePath]
                          ELSE pendingFilePaths
                     /\ call' = [c EXCEPT !.message =
                                    @ \o <<"ORCHESTRATOR_DELEGATION_REQUIRED">>]
                ELSE call' = c /\ UNCHANGED pendingFilePaths
           ELSE IF call.tool = "sisyphus_task"
           THEN /\ call' =
                     IF lacksDirective(prompt)
                     THEN [c EXCEPT !.prompt =
                              prompt \o <<"\n<system-reminder>">>
                                     \o SINGLE_TASK_DIRECTIVE
                                     \o <<"</system-reminder>">>]
                     ELSE c
                /\ UNCHANGED pendingFilePaths
           ELSE call' = c /\ UNCHANGED pendingFilePaths
    /\ UNCHANGED <<queriedModelID, queriedLimit, nearestAgent, boulder, idleVars>>

\* hook["tool.execute.after"](input, output): the tool has run and returned
\* result; metadataPath is output.metadata.filePath (<<>>: none)
ToolExecuteAfter(result, metadataPath) ==
    /\ call.phase = "before"
    /\ "orchestrator" \in call.ran
    /\ LET c == [call EXCEPT !.phase = "done", !.output = result]
           stored == IF call.callID # 0 THEN pendingFilePaths[call.callID] ELSE <<>>
           filePath == IF stored # <<>> THEN stored ELSE metadataPath
       IN  IF ~isCallerOrchestrator(nearestAgent)
           THEN call' = c /\ UNCHANGED <<pendingFilePaths, boulder>>
           ELSE IF call.tool \in WRITE_EDIT_TOOLS
           THEN /\ pendingFilePaths' =
                     IF call.callID # 0
                     THEN [pendingFilePaths EXCEPT ![call.callID] = <<>>]
                     ELSE pendingFilePaths
                /\ call' =
                     IF filePath # <<>> /\ ~isSisyphusPath(filePath)
                     THEN [c EXCEPT !.output = @ \o <<"DIRECT_WORK_REMINDER">>]
                     ELSE c
                /\ UNCHANGED boulder
           ELSE IF \/ call.tool # "sisyphus_task"
                   \/ includes(result, <<"Background task launched">>)
                   \/ result = <<>>
           THEN call' = c /\ UNCHANGED <<pendingFilePaths, boulder>>
           ELSE IF boulder.exists
           THEN /\ boulder' = [boulder EXCEPT !.hasSession = TRUE]
                /\ call' = [c EXCEPT !.output =
                              <<"## SUBAGENT WORK COMPLETED", "fileChanges">>
                                \o result \o <<"buildOrchestratorReminder">>]
                /\ UNCHANGED pendingFilePaths
           ELSE /\ call' = [c EXCEPT !.output =
                              @ \o <<"buildStandaloneVerificationReminder">>]
                /\ UNCHANGED <<pendingFilePaths, boulder>>
    /\ UNCHANGED <<queriedModelID, queriedLimit, nearestAgent, idleVars>>

\* a message of another agent is stored for the session
AgentChange(agent) ==
    /\ agent \notin {"none", nearestAgent}
    /\ nearestAgent' = agent
    /\ UNCHANGED <<queriedModelID, queriedLimit, call, pendingFilePaths, boulder, idleVars>>

\* the host starts its next tool call, under a callID not used before
NewCall(c) ==
    /\ call.phase \in {"idle", "done"}
    /\ c.nth = call.nth + 1
    /\ call' = c
    /\ UNCHANGED <<queriedModelID, queriedLimit, nearestAgent, pendingFilePaths, boulder,
                   idleVars>>

\* the before hooks are run once more over the args they have left
Rerun ==
    /\ call.phase = "before"
    /\ call.ran # {}
    /\ call.runs < MaxRuns
    /\ call' = [call EXCEPT !.ran = {}, !.runs = @ + 1]
    /\ UNCHANGED <<queriedModelID, queriedLimit, nearestAgent, pendingFilePaths, boulder,
                   idleVars>>

(***************************************************************************)
(* The markdown-only write guard of the planner (prometheus-md-only)       *)
(***************************************************************************)
DelegateTools == {"sisyphus_task", "task", "call_omo_agent"}

\* String.prototype.toLowerCase on a sequence of characters
lowerCased(str) ==
    LET upper == <<"A", "B", "C", "D", "E", "F", "G", "H", "I", "J", "K", "L", "M",
                   "N", "O", "P", "Q", "R", "S", "T", "U", "V", "W", "X", "Y", "Z">>
        lower == <<"a", "b", "c", "d", "e", "f", "g", "h", "i", "j", "k", "l", "m",
                   "n", "o", "p", "q", "r", "s", "t", "u", "v", "w", "x", "y", "z">>
        low(c) == IF \E i \in 1..26 : upper[i] = c
                  THEN lower[CHOOSE i \in 1..26 : upper[i] = c]
                  ELSE c
    IN  [i \in 1..Len(str) |-> low(str[i])]

\* String.prototype.endsWith
endsWith(str, suffix) ==
    /\ Len(suffix) <= Len(str)
    /\ SubSeq(str, Len(str) - Len(suffix) + 1, Len(str)) = suffix

\* the segments of a path, either separator accepted; a leading separator
\* leaves an empty first segment
RECURSIVE SplitPath(_)
SplitPath(path) ==
    IF path = <<>> THEN << <<>> >>
    ELSE LET rest == SplitPath(Tail(path))
         IN  IF Head(path) \in {"/", "\\"}
             THEN << <<>> >> \o rest
             ELSE << <<Head(path)>> \o Head(rest) >> \o Tail(rest)

\* the segments of the path resolved against the workspace root, with the
\* "." and ".." segments resolved
RECURSIVE ResolveSegmentsKeepingDots(_, _)
ResolveSegmentsKeepingDots(base, segs) ==
    IF segs = <<>> THEN base
    ELSE ResolveSegmentsKeepingDots(
            IF Head(segs) = <<>> THEN base ELSE Append(base, Head(segs)), Tail(segs))

RECURSIVE ResolveSegments(_, _)
ResolveSegments(base, segs) ==
    IF segs = <<>> THEN base
    ELSE LET seg == Head(segs)
         IN  IF seg = <<>> \/ seg = <<".">>
             THEN ResolveSegments(base, Tail(segs))
             ELSE IF seg = <<".", ".">>
             THEN ResolveSegments(IF base = <<>> THEN base
                                  ELSE SubSeq(base, 1, Len(base) - 1), Tail(segs))
             ELSE ResolveSegments(Append(base, seg), Tail(segs))

\* the path, resolved against ctx.directory, lies in the workspace and below
\* a directory of the reserved name, compared without regard to case
isInsideReserved(path) ==
    LET WorkspaceRoot == << <<"w">> >>
        resolved ==
            ResolveSegments(IF Head(path) \in {"/", "\\"} THEN <<>> ELSE WorkspaceRoot,
                            SplitPath(path))
        n == Len(WorkspaceRoot)
    IN  /\ Len(resolved) > n
        /\ SubSeq(resolved, 1, n) = WorkspaceRoot
        /\ \E i \in (n + 1)..(Len(resolved) - 1) :
              lowerCased(resolved[i]) = DotSisyphus

\* the paths the planner's tool calls name, absolute or relative, of up to
\* three segments with either separator
GuardPaths ==
    LET sep == {<<"/">>, <<"\\">>}
        Names == {DotSisyphus, <<".", "S", "I", "S", "Y", "P", "H", "U", "S">>,
                  <<".", ".">>, <<".">>, <<"w">>, <<"x", ".", "m", "d">>,
                  <<"x", ".", "M", "D">>, <<"x", ".", "t", "s">>}
        Relative ==
            Names \cup {a \o p \o b : a \in Names, p \in sep, b \in Names}
                  \cup {a \o p \o b \o q \o c :
                          a \in Names, p \in sep, b \in Names, q \in sep, c \in Names}
    IN  Relative \cup {<<"/">> \o r : r \in Relative}

guardDecisionAnyMarkdown(agent, tool, filePath) ==
    IF agent # "Prometheus (Planner)" \/ tool \notin WRITE_EDIT_TOOLS \/ filePath = <<>>
    THEN "no"
    ELSE IF ~endsWith(lowerCased(filePath), <<".", "m", "d">>) THEN "extension"
    ELSE "no"

\* the failure the guard throws on a call: "extension" (can only write/edit
\* .md files), "directory" (... inside .sisyphus/) or "no" (none)
guardDecision(agent, tool, filePath) ==
    IF agent # "Prometheus (Planner)" \/ tool \notin WRITE_EDIT_TOOLS \/ filePath = <<>>
    THEN "no"
    ELSE IF ~endsWith(lowerCased(filePath), <<".", "m", "d">>) THEN "extension"
    ELSE IF ~isInsideReserved(filePath) THEN "directory"
    ELSE "no"

\* hook["tool.execute.before"](input, output) of the guard
GuardExecuteBefore ==
    /\ call.phase = "before"
    /\ "guard" \notin call.ran
    /\ LET c == [call EXCEPT !.ran = @ \cup {"guard"}]
           filePath == call.filePath
           prompt == call.prompt
           thrown == guardDecision(nearestAgent, call.tool, filePath)
       IN  IF thrown # "no"
           THEN call' = [c EXCEPT !.phase = "rejected", !.rejected = thrown]
           ELSE IF nearestAgent # "Prometheus (Planner)" THEN call' = c
           ELSE IF call.tool \in DelegateTools
           THEN call' =
                  IF prompt # <<>> /\ ~includes(prompt, <<SYSTEM_DIRECTIVE_PREFIX>>)
                  THEN [c EXCEPT !.prompt =
                           prompt \o <<"\n\n", SYSTEM_DIRECTIVE_PREFIX,
                                       " ... DO NOT modify any files ...">>]
                  ELSE c
           ELSE call' = c
    /\ UNCHANGED <<queriedModelID, queriedLimit, nearestAgent, pendingFilePaths, boulder,
                   idleVars>>

(***************************************************************************)
(* The sisyphus-orchestrator hook on the event bus: boulder continuation   *)
(***************************************************************************)
MaxBoulderIdles == 2    \* session.idle events the host delivers

\* what readBoulderState and getPlanProgress find: no record, or a record
\* that lists the session or not, of a plan that is complete or not
Boulders ==
    {[exists |-> FALSE, hasSession |-> FALSE, complete |-> FALSE]}
      \cup {[exists |-> TRUE, hasSession |-> h, complete |-> c] :
              h \in BOOLEAN, c \in BOOLEAN}

\* the hook's event state as created, with nothing in flight
IdleInit ==
    /\ orchState = [s \in SessionIDs |-> "absent"]
    /\ bgRunning = FALSE
    /\ continuations = {}
    /\ idles = 0
    /\ promptsByIdle = [n \in 1..MaxBoulderIdles |-> 0]
    /\ lastPrompt = [sent |-> FALSE, boulder |-> FALSE, orchestrator |-> FALSE,
                     complete |-> FALSE, bgRunning |-> FALSE, abort |-> FALSE,
                     afterAbort |-> FALSE]
    /\ abortPending = FALSE
    /\ lastEventAbort = FALSE

\* event.type === "session.error"
OrchSessionError(s, isAbort) ==
    /\ orchState' = [orchState EXCEPT ![s] = IF isAbort THEN "true" ELSE "false"]
    /\ abortPending' = (abortPending \/ isAbort)
    /\ lastEventAbort' = isAbort
    /\ UNCHANGED <<bgRunning, continuations, idles, promptsByIdle, lastPrompt>>
    /\ UNCHANGED <<queriedModelID, queriedLimit, nearestAgent, call, pendingFilePaths,
                   boulder>>

\* event.type === "session.idle", up to the first await of injectContinuation
OrchSessionIdle(s, mainSessionID, isBackgroundTaskSession) ==
    /\ idles < MaxBoulderIdles
    /\ idles' = idles + 1
    /\ lastEventAbort' = FALSE
    /\ IF /\ mainSessionID # NoSession
          /\ s # mainSessionID
          /\ ~isBackgroundTaskSession
          /\ ~(boulder.exists /\ boulder.hasSession)
       THEN UNCHANGED <<orchState, continuations>>
       ELSE IF orchState[s] = "true"
       THEN /\ orchState' = [orchState EXCEPT ![s] = "false"]
            /\ UNCHANGED continuations
       ELSE /\ orchState' = [orchState EXCEPT ![s] = IF @ = "absent" THEN "unset" ELSE @]
            /\ IF \/ bgRunning
                  \/ ~boulder.exists
                  \/ ~isCallerOrchestrator(nearestAgent)
                  \/ boulder.complete
               THEN UNCHANGED continuations
               ELSE continuations' = continuations \cup
                       {[idle |-> idles + 1, pc |-> "messages",
                         afterAbort |-> abortPending]}
    /\ UNCHANGED <<bgRunning, promptsByIdle, lastPrompt, abortPending>>
    /\ UNCHANGED <<queriedModelID, queriedLimit, nearestAgent, call, pendingFilePaths,
                   boulder>>

\* session.messages returns or throws in injectContinuation: the model of the
\* prompt is taken from the response or from the message store, and
\* session.prompt is called
BoulderMessagesReturn(k) ==
    /\ k \in continuations
    /\ k.pc = "messages"
    /\ continuations' = (continuations \ {k}) \cup {[k EXCEPT !.pc = "prompt"]}
    /\ promptsByIdle' = [promptsByIdle EXCEPT ![k.idle] = @ + 1]
    /\ lastPrompt' = [sent |-> TRUE, boulder |-> boulder.exists,
                      orchestrator |-> isCallerOrchestrator(nearestAgent),
                      complete |-> boulder.complete, bgRunning |-> bgRunning,
                      abort |-> lastEventAbort,
                      afterAbort |-> (k.afterAbort /\ abortPending)]
    /\ UNCHANGED <<orchState, bgRunning, idles, abortPending, lastEventAbort>>
    /\ UNCHANGED <<queriedModelID, queriedLimit, nearestAgent, call, pendingFilePaths,
                   boulder>>

\* session.prompt returns or throws in injectContinuation: either is logged
BoulderPromptReturn(k) ==
    /\ k \in continuations
    /\ k.pc = "prompt"
    /\ continuations' = continuations \ {k}
    /\ UNCHANGED <<orchState, bgRunning, idles, promptsByIdle, lastPrompt,
                   abortPending, lastEventAbort>>
    /\ UNCHANGED <<queriedModelID, queriedLimit, nearestAgent, call, pendingFilePaths,
                   boulder>>

\* event.type === "message.updated", "message.part.updated",
\* "tool.execute.before" or "tool.execute.after"
OrchActivity(s, type, role) ==
    /\ orchState' =
          IF orchState[s] # "absent" /\ (type = "message.part.updated" => role = "assistant")
          THEN [orchState EXCEPT ![s] = "false"]
          ELSE orchState
    /\ abortPending' = (abortPending /\ ~(type = "message.updated" /\ role = "user"))
    /\ lastEventAbort' = FALSE
    /\ UNCHANGED <<bgRunning, continuations, idles, promptsByIdle, lastPrompt>>
    /\ UNCHANGED <<queriedModelID, queriedLimit, nearestAgent, call, pendingFilePaths,
                   boulder>>

\* event.type === "session.deleted"
OrchSessionDeleted(s) ==
    /\ orchState' = [orchState EXCEPT ![s] = "absent"]
    /\ lastEventAbort' = FALSE
    /\ UNCHANGED <<bgRunning, continuations, idles, promptsByIdle, lastPrompt,
                   abortPending>>
    /\ UNCHANGED <<queriedModelID, queriedLimit, nearestAgent, call, pendingFilePaths,
                   boulder>>

\* the plan record is written or removed, a task of the plan is ticked off, a
\* background task starts or ends
EnvironmentChange(b, bg) ==
    /\ <<b, bg>> # <<boulder, bgRunning>>
    /\ boulder' = b
    /\ bgRunning' = bg
    /\ UNCHANGED <<orchState, continuations, idles, promptsByIdle, lastPrompt,
                   abortPending, lastEventAbort>>
    /\ UNCHANGED <<queriedModelID, queriedLimit, nearestAgent, call, pendingFilePaths>>

\* no lookup and no tool call is being observed
HookInit ==
    /\ queriedModelID = <<>>
    /\ queriedLimit = Absent
    /\ nearestAgent = "none"
    /\ call = NoToolCall
    /\ pendingFilePaths = [id \in 1..MaxCalls |-> <<>>]
    /\ boulder \in {b \in Boulders : ~b.exists}
    /\ IdleInit

Init == TodoInit /\ CompactInit /\ PreemptInit(TRUE) /\ HookInit

Next ==
    \/ Tick /\ UNCHANGED <<compactVars, preemptVars, hookVars>>
    \/ (\E s \in SessionIDs : SessionError(s)) /\ UNCHANGED <<compactVars, preemptVars, hookVars>>
    \/ (\E s \in SessionIDs, m \in MainSessionIDs : SessionIdle(s, m))
          /\ UNCHANGED <<compactVars, preemptVars, hookVars>>
    \/ (\E s \in SessionIDs, ok \in BOOLEAN :
        \E todos \in TodosRead(ok) :
        \E bg \in BackgroundRead(ok /\ getIncompleteCount(todos) # 0) :
           IdleTodoReturn(s, ok, todos, bg)) /\ UNCHANGED <<compactVars, preemptVars, hookVars>>
    \/ (\E s \in SessionIDs, role \in Roles, finish \in BOOLEAN :
           MessageUpdated(s, role, finish)) /\ UNCHANGED <<compactVars, preemptVars, hookVars>>
    \/ (\E s \in SessionIDs, role \in Roles : MessagePartUpdated(s, role))
          /\ UNCHANGED <<compactVars, preemptVars, hookVars>>
    \/ (\E s \in SessionIDs : ToolExecute(s)) /\ UNCHANGED <<compactVars, preemptVars, hookVars>>
    \/ (\E s \in SessionIDs : SessionDeleted(s)) /\ UNCHANGED <<compactVars, preemptVars, hookVars>>
    \/ (\E s \in SessionIDs : MarkRecovering(s)) /\ UNCHANGED <<compactVars, preemptVars, hookVars>>
    \/ (\E s \in SessionIDs : MarkRecoveryComplete(s)) /\ UNCHANGED <<compactVars, preemptVars, hookVars>>
    \/ (\E t \in timers : TimerFire(t)) /\ UNCHANGED <<compactVars, preemptVars, hookVars>>
    \/ (\E i \in injections, ok \in BOOLEAN :
        \E todos \in TodosRead(ok) :
        \E bg \in BackgroundRead(ok /\ getIncompleteCount(todos) # 0) :
        \E prevMessage \in
              PrevMessageRead(ok /\ getIncompleteCount(todos) # 0 /\ ~bg) :
           InjectionTodoReturn(i, ok, todos, bg, prevMessage))
          /\ UNCHANGED <<compactVars, preemptVars, hookVars>>
    \/ (\E i \in injections, ok \in BOOLEAN : PromptReturn(i, ok))
          /\ UNCHANGED <<compactVars, preemptVars, hookVars>>

Spec == Init /\ [][Next]_vars

(***************************************************************************)
(* The auto-compact executor on its own                                    *)
(***************************************************************************)
CompactNext ==
    \/ (\E s \in SessionIDs : OverflowDetected(s)) /\ UNCHANGED <<todoVars, preemptVars, hookVars>>
    \/ (\E s \in SessionIDs, hasModel \in BOOLEAN :
        \E largest \in LargestRead(s) :
        \E truncated \in TruncatedRead(largest) :
           Invoke(s, hasModel, largest, truncated)) /\ UNCHANGED <<todoVars, preemptVars, hookVars>>
    \/ (\E t \in BagToSet(compactTimers) :
        \E largest \in (IF t.kind = "retry" THEN LargestRead(t.sid) ELSE {"none"}) :
        \E truncated \in TruncatedRead(largest) :
           CompactTimerFire(t, largest, truncated)) /\ UNCHANGED <<todoVars, preemptVars, hookVars>>
    \/ (\E a \in BagToSet(activations) : TruncateToastReturn(a))
          /\ UNCHANGED <<todoVars, preemptVars, hookVars>>
    \/ (\E a \in BagToSet(activations) : SummarizeToastReturn(a))
          /\ UNCHANGED <<todoVars, preemptVars, hookVars>>
    \/ (\E a \in BagToSet(activations), ok \in BOOLEAN : SummarizeReturn(a, ok))
          /\ UNCHANGED <<todoVars, preemptVars, hookVars>>
    \/ (\E a \in BagToSet(activations), pair \in MessagePairs :
           MessagesReturn(a, pair)) /\ UNCHANGED <<todoVars, preemptVars, hookVars>>
    \/ (\E a \in BagToSet(activations) : RevertToastReturn(a))
          /\ UNCHANGED <<todoVars, preemptVars, hookVars>>
    \/ (\E a \in BagToSet(activations), ok \in BOOLEAN :
           RevertAssistantReturn(a, ok)) /\ UNCHANGED <<todoVars, preemptVars, hookVars>>
    \/ (\E a \in BagToSet(activations), ok \in BOOLEAN : RevertUserReturn(a, ok))
          /\ UNCHANGED <<todoVars, preemptVars, hookVars>>
    \/ (\E a \in BagToSet(activations) : FailureToastReturn(a))
          /\ UNCHANGED <<todoVars, preemptVars, hookVars>>

CompactSpec == Init /\ [][CompactNext]_vars

\* what the event loop and the client do without any new event: a pending
\* timeout fires, an awaited call returns or throws
CompactProgress ==
    /\ \/ \E t \in BagToSet(compactTimers) :
           \E largest \in (IF t.kind = "retry" THEN LargestRead(t.sid) ELSE {"none"}) :
           \E truncated \in TruncatedRead(largest) :
              CompactTimerFire(t, largest, truncated)
       \/ \E a \in BagToSet(activations) : TruncateToastReturn(a)
       \/ \E a \in BagToSet(activations) : SummarizeToastReturn(a)
       \/ \E a \in BagToSet(activations), ok \in BOOLEAN : SummarizeReturn(a, ok)
       \/ \E a \in BagToSet(activations), pair \in MessagePairs :
              MessagesReturn(a, pair)
       \/ \E a \in BagToSet(activations) : RevertToastReturn(a)
       \/ \E a \in BagToSet(activations), ok \in BOOLEAN :
              RevertAssistantReturn(a, ok)
       \/ \E a \in BagToSet(activations), ok \in BOOLEAN : RevertUserReturn(a, ok)
       \/ \E a \in BagToSet(activations) : FailureToastReturn(a)
    /\ UNCHANGED <<todoVars, preemptVars, hookVars>>

\* every pending timeout fires and every awaited call returns or throws
CompactFairSpec == CompactSpec /\ WF_vars(CompactProgress)

PreemptNext ==
    \/ ClockTick /\ UNCHANGED <<todoVars, compactVars, hookVars>>
    \/ (\E s \in SessionIDs, info \in MessageInfos : PreemptMessageUpdated(s, info))
          /\ UNCHANGED <<todoVars, compactVars, hookVars>>
    \/ (\E s \in SessionIDs : PreemptSessionIdle(s))
          /\ UNCHANGED <<todoVars, compactVars, hookVars>>
    \/ (\E h \in BagToSet(handlers), ok \in BOOLEAN, messages \in MessageLists :
           PreemptMessagesReturn(h, ok, messages))
          /\ UNCHANGED <<todoVars, compactVars, hookVars>>
    \/ (\E h \in BagToSet(handlers) : PreemptToastReturn(h))
          /\ UNCHANGED <<todoVars, compactVars, hookVars>>
    \/ (\E h \in BagToSet(handlers), ok \in BOOLEAN : CallbackReturn(h, ok))
          /\ UNCHANGED <<todoVars, compactVars, hookVars>>
    \/ (\E h \in BagToSet(handlers), ok \in BOOLEAN : PreemptSummarizeReturn(h, ok))
          /\ UNCHANGED <<todoVars, compactVars, hookVars>>
    \/ (\E h \in BagToSet(handlers) : SuccessToastReturn(h))
          /\ UNCHANGED <<todoVars, compactVars, hookVars>>
    \/ (\E s \in SessionIDs : PreemptSessionDeleted(s))
          /\ UNCHANGED <<todoVars, compactVars, hookVars>>

\* the hook is created with or without the onBeforeSummarize callback
PreemptHookInit ==
    TodoInit /\ CompactInit /\ HookInit /\ \E callback \in BOOLEAN : PreemptInit(callback)

PreemptSpec == PreemptHookInit /\ [][PreemptNext]_vars

(***************************************************************************)
(* The context-limit lookup on its own                                     *)
(***************************************************************************)
LimitInit ==
    /\ TodoInit /\ CompactInit /\ PreemptInit(TRUE)
    /\ queriedModelID \in ModelIDs
    /\ queriedLimit = Absent
    /\ nearestAgent = "none"
    /\ call = NoToolCall
    /\ pendingFilePaths = [id \in 1..MaxCalls |-> <<>>]
    /\ boulder \in {b \in Boulders : ~b.exists}
    /\ IdleInit

LimitSpec == LimitInit /\ [][LookupLimit]_vars

(***************************************************************************)
(* The before hooks of the orchestrator and of the guard on one tool call  *)
(***************************************************************************)
BeforeInit ==
    /\ TodoInit /\ CompactInit /\ PreemptInit(TRUE)
    /\ queriedModelID = <<>>
    /\ queriedLimit = Absent
    /\ nearestAgent \in Agents
    /\ call \in ToolCalls(1)
                  \cup {[ToolCall(tool, 1, path, <<>>) EXCEPT !.nth = 1] :
                          tool \in {"Write", "edit"}, path \in GuardPaths}
    /\ pendingFilePaths = [id \in 1..MaxCalls |-> <<>>]
    /\ boulder \in {b \in Boulders : ~b.exists}
    /\ IdleInit

BeforeNext ==
    \/ ToolExecuteBefore /\ UNCHANGED <<todoVars, compactVars, preemptVars>>
    \/ GuardExecuteBefore /\ UNCHANGED <<todoVars, compactVars, preemptVars>>
    \/ Rerun /\ UNCHANGED <<todoVars, compactVars, preemptVars>>

BeforeSpec == BeforeInit /\ [][BeforeNext]_vars

(***************************************************************************)
(* The orchestrator's hooks over the tool calls of a session, and its      *)
(* event handler over the events of a session                              *)
(***************************************************************************)
OrchestratorInit ==
    /\ TodoInit /\ CompactInit /\ PreemptInit(TRUE)
    /\ queriedModelID = <<>>
    /\ queriedLimit = Absent
    /\ nearestAgent \in Agents
    /\ call = NoToolCall
    /\ pendingFilePaths = [id \in 1..MaxCalls |-> <<>>]
    /\ boulder \in Boulders
    /\ IdleInit

ToolNext ==
    \/ (call.phase \in {"idle", "done"} /\ call.nth < MaxCalls
           /\ \E c \in ToolCalls(call.nth + 1) : NewCall(c))
          /\ UNCHANGED <<todoVars, compactVars, preemptVars>>
    \/ ToolExecuteBefore /\ UNCHANGED <<todoVars, compactVars, preemptVars>>
    \/ (\E agent \in Agents : AgentChange(agent))
          /\ UNCHANGED <<todoVars, compactVars, preemptVars>>
    \/ (\E result \in {<<>>, <<"result">>, <<"Background task launched">>},
           metadataPath \in {<<>>, call.filePath} :
           ToolExecuteAfter(result, metadataPath))
          /\ UNCHANGED <<todoVars, compactVars, preemptVars>>

ToolSpec == OrchestratorInit /\ [][ToolNext]_vars

BoulderNext ==
    \/ (\E s \in SessionIDs, isAbort \in BOOLEAN : OrchSessionError(s, isAbort))
          /\ UNCHANGED <<todoVars, compactVars, preemptVars>>
    \/ (\E s \in SessionIDs, m \in MainSessionIDs, isBackgroundTaskSession \in BOOLEAN :
           OrchSessionIdle(s, m, isBackgroundTaskSession))
          /\ UNCHANGED <<todoVars, compactVars, preemptVars>>
    \/ (\E k \in continuations : BoulderMessagesReturn(k))
          /\ UNCHANGED <<todoVars, compactVars, preemptVars>>
    \/ (\E k \in continuations : BoulderPromptReturn(k))
          /\ UNCHANGED <<todoVars, compactVars, preemptVars>>
    \/ (\E s \in SessionIDs, role \in Roles,
           type \in {"message.updated", "message.part.updated", "tool.execute"} :
           OrchActivity(s, type, role))
          /\ UNCHANGED <<todoVars, compactVars, preemptVars>>
    \/ (\E s \in SessionIDs : OrchSessionDeleted(s))
          /\ UNCHANGED <<todoVars, compactVars, preemptVars>>
    \/ (\E agent \in Agents : AgentChange(agent))
          /\ UNCHANGED <<todoVars, compactVars, preemptVars>>
    \/ (\E b \in Boulders, bg \in BOOLEAN : EnvironmentChange(b, bg))
          /\ UNCHANGED <<todoVars, compactVars, preemptVars>>

BoulderSpec == OrchestratorInit /\ [][BoulderNext]_vars

(***************************************************************************)
(* Properties of the todo-continuation coordinator                         *)
(***************************************************************************)
\* the step in which injection i calls session.prompt
PromptStep(i) ==
    /\ i \in injections
    /\ i.pc = "todo"
    /\ [i EXCEPT !.pc = "prompt"] \in injections'

\* the step starts a countdown for session s
CountdownStarted(s) ==
    \E t \in timers' :
        /\ t.sid = s
        /\ \A u \in timers : ~(u.obj = t.obj /\ u.ver = t.ver)

\* the observed run has come to its end
RunEnded(s) ==
    /\ e2e[s].stage \in {"elapsed", "declined", "prompted"}
    /\ ~e2e[s].act
    /\ InjectionsOf(s) = {}

OnePromptSent(s) ==
    /\ e2e[s].stage = "prompted"
    /\ e2e[s].sent = 1
    /\ e2e[s].said = e2e[s].n
    /\ HasState(s)
    /\ State(s).mode = "idle"

\* C1: session.idle for the main session in mode idle, a fetched list with an
\* incomplete todo, no background task, no later activity event,
\* session.error, markRecovering or session.deleted, every RPC returning:
\* exactly one continuation prompt is sent, its status line reports the count
\* of the re-fetch, and the mode ends in idle. The checks executeInjection
\* makes by design (throttle, write permission, plan-mode agent) are taken to
\* pass.
C1_EndToEnd ==
    \A s \in SessionIDs : (RunEnded(s) /\ e2e[s].pass) => OnePromptSent(s)

\* The end-to-end run does succeed when no injection of an earlier countdown
\* and no other idle handler is suspended as the session.idle arrives; while
\* its countdown runs the mode is countingDown and the timeout is the one the
\* object holds.
CleanRun ==
    \A s \in SessionIDs :
        /\ (RunEnded(s) /\ e2e[s].pass /\ e2e[s].quiet) => OnePromptSent(s)
        /\ (e2e[s].stage = "fetched" /\ e2e[s].quiet) =>
              /\ HasState(s)
              /\ State(s).mode = "countingDown"
              /\ \E t \in timers : /\ t.obj = sessions[s]
                                   /\ t.ver = State(s).version
                                   /\ State(s).timer = t.ver

CleanRunReached ==
    \E s \in SessionIDs :
        /\ RunEnded(s) /\ e2e[s].pass /\ e2e[s].quiet
        /\ OnePromptSent(s)
        /\ e2e[s].said = 2

\* C2: an activity event handled after session.idle was received and before
\* its countdown has elapsed, also while the idle handler's todo fetch is
\* outstanding, makes that idle result in no continuation prompt.
C2_ActivityCancels ==
    \A s \in SessionIDs : ~(e2e[s].act /\ e2e[s].stage = "prompted")

\* C3: session.prompt is called only when the captured version equals the
\* session's live version at the moment of the call.
C3_StaleVersionGuard ==
    [][\A i \in injections :
          (PromptStep(i) /\ HasState(i.sid)) => State(i.sid).version = i.ver]_vars

\* C4 as claimed: in any mode, a call of invalidate strictly increases the
\* stored version.
C4_MonotonicAsClaimed ==
    \A s \in SessionIDs :
        HasState(s) => invalidateState(State(s)).version > State(s).version

\* C4, amended: a call of invalidate made while the mode is not recovering
\* strictly increases the version, the version of a session's object never
\* decreases, and a version captured by a timeout or an injection started
\* before a call of invalidate differs from the live version after it.
C4_Monotonic ==
    /\ [](\A s \in SessionIDs :
            HasState(s) =>
              LET st == State(s)
                  after == invalidateState(st)
              IN  /\ st.mode # "recovering" => after.version > st.version
                  /\ \A t \in timers :
                        t.obj = sessions[s] => t.ver # after.version
                  /\ \A i \in injections :
                        i.obj = sessions[s] => i.ver # after.version)
    /\ [][\A s \in SessionIDs :
            (HasState(s) /\ sessions'[s] = sessions[s]) =>
                heap'[sessions[s]].version >= State(s).version]_vars

C4_Witness ==
    \E s \in SessionIDs :
        /\ HasState(s)
        /\ \E i \in injections : i.obj = sessions[s] /\ i.ver < State(s).version
        /\ \E t \in timers : t.obj = sessions[s]

\* C5: while the mode is recovering, a call of invalidate leaves the version,
\* the mode, the timer and lastAttemptedAt of the session unchanged, and
\* no pending timeout is cleared.
C5_RecoveringFrame ==
    \A s \in SessionIDs :
        (HasState(s) /\ State(s).mode = "recovering") =>
            /\ InvalidatedHeap(heap, sessions, s) = heap
            /\ InvalidatedTimers(heap, sessions, timers, s) = timers

C5_Witness ==
    \E s \in SessionIDs :
        /\ HasState(s) /\ State(s).mode = "recovering"
        /\ State(s).version > 0
        /\ NumIdleHandlers(s) > 0

\* C6: once session.error was handled, no countdown is started and no
\* continuation prompt is sent for the session until a message.updated with
\* role user arrives.
C6_ErrorBypassPersists ==
    [][\A s \in SessionIDs :
          errPending[s] => (~CountdownStarted(s) /\ prompts'[s] = prompts[s])]_vars

\* C7: between markRecovering and the next markRecoveryComplete (or
\* session.deleted) the mode of the session stays recovering.
C7_RecoveringHeld ==
    \A s \in SessionIDs :
        recoveryHeld[s] => (HasState(s) /\ State(s).mode = "recovering")

\* C8: between markRecovering and markRecoveryComplete no countdown is
\* started and no session.prompt call is made for the session.
C8_NoInjectionDuringRecovery ==
    [][\A s \in SessionIDs :
          recoveryHeld[s] => (~CountdownStarted(s) /\ prompts'[s] = prompts[s])]_vars

\* C9: two session.prompt calls for the same session object are at least
\* MIN_INJECTION_INTERVAL_MS apart, whether the earlier call succeeded or not.
C9_Throttle ==
    [][\A i \in injections :
          PromptStep(i) =>
              \/ promptAge[i.obj] = NoAttempt
              \/ promptAge[i.obj] >= MIN_INJECTION_INTERVAL_MS]_vars

C9_Witness ==
    \E s \in SessionIDs :
        /\ prompts[s] = 2
        /\ allocated = 1
        /\ HasState(s) /\ promptAge[sessions[s]] = 0

(***************************************************************************)
(* Properties of the auto-compact executor                                 *)
(***************************************************************************)
\* the step is an invocation of executeCompact for s made while the guard is
\* held: an external one, or a retry timeout of the session firing
BlockedInvocation(s) ==
    /\ s \in compactionInProgress
    /\ \/ invoked'[s] = invoked[s] + 1
       \/ \E t \in BagToSet(compactTimers) :
             /\ t.kind = "retry" /\ t.sid = s
             /\ compactTimers' = compactTimers (-) One(t)
             /\ activations' = activations

\* C10: for any session at most one executeCompact activation is between
\* acquiring and releasing the compactionInProgress guard, and an invocation
\* made while the guard is held changes no counter, starts no RPC or toast and
\* schedules no timer.
C10_SingleFlight ==
    /\ [](\A s \in SessionIDs :
            /\ NumGuarded(s) <= 1
            /\ NumGuarded(s) = 1 => s \in compactionInProgress)
    /\ [][\A s \in SessionIDs :
            BlockedInvocation(s) =>
                /\ UNCHANGED <<compactionInProgress, truncateStateBySession,
                               retryStateBySession, fallbackStateBySession,
                               pendingCompact, errorDataBySession,
                               activations, truncatedOutputs>>
                /\ compactTimers' \sqsubseteq compactTimers]_vars

C10_Witness ==
    \E s \in SessionIDs :
        /\ lastCall[s] = "blocked"
        /\ s \in compactionInProgress
        /\ NumGuarded(s) = 1
        /\ invoked[s] = 2

\* the step is an invocation of executeCompact for s that finds the guard
\* free: an external one, or a retry timeout of the session firing
EntryStep(s, hasModel, largest, truncated) ==
    /\ s \notin compactionInProgress
    /\ \/ Invoke(s, hasModel, largest, truncated)
       \/ \E t \in BagToSet(compactTimers) :
             /\ t.kind = "retry" /\ t.sid = s /\ t.hasModel = hasModel
             /\ CompactTimerFire(t, largest, truncated)

\* the activations the step starts or moves on, with the place they wait at
Started(s, pc) ==
    \E a \in BagToSet(activations') :
        /\ a.sid = s /\ a.pc = pc
        /\ CopiesIn(a, activations') > CopiesIn(a, activations)

TruncateAttempt(s) == getOrCreate(truncateStateBySession, s)[s]

\* C11: an invocation that finds truncateAttempt below its maximum and a
\* largest tool result of at least the minimum size truncates before anything
\* else, and if the truncation succeeds it ends after its toast without
\* entering the summarize or the revert tier; an invocation that finds
\* truncateAttempt at its maximum truncates nothing and goes on to the
\* summarize tier.
C11_TierOrdering ==
    [][\A s \in SessionIDs, hasModel \in BOOLEAN, largest \in LargestResults,
          truncated \in BOOLEAN :
          /\ (/\ EntryStep(s, hasModel, largest, truncated)
              /\ TruncateAttempt(s) < maxTruncateAttempts
              /\ largest = "large" /\ truncated) =>
                 /\ Started(s, "truncateToast")
                 /\ truncatedOutputs'[s] = truncatedOutputs[s] + 1
                 /\ truncateStateBySession'[s] = TruncateAttempt(s) + 1
                 /\ UNCHANGED <<retryStateBySession, fallbackStateBySession>>
                 /\ \A pc \in GuardedPcs \ {"truncateToast"} : ~Started(s, pc)
          /\ (/\ EntryStep(s, hasModel, largest, truncated)
              /\ TruncateAttempt(s) >= maxTruncateAttempts) =>
                 /\ truncatedOutputs'[s] = truncatedOutputs[s]
                 /\ ~Started(s, "truncateToast")
                 /\ (hasModel /\ getOrCreate(retryStateBySession, s)[s] < maxAttempts)
                       => /\ Started(s, "summarizeToast")
                          /\ retryStateBySession'[s] =
                                 getOrCreate(retryStateBySession, s)[s] + 1
          /\ \A a \in BagToSet(activations) :
                (a.pc = "truncateToast" /\ TruncateToastReturn(a)) =>
                    /\ \A pc \in GuardedPcs : ~Started(a.sid, pc)
                    /\ a.sid \notin compactionInProgress']_vars

C11_Witness ==
    \E s \in SessionIDs :
        /\ truncatedOutputs[s] = maxTruncateAttempts
        /\ truncateStateBySession[s] = maxTruncateAttempts
        /\ \E a \in BagToSet(activations) : a.sid = s /\ a.pc = "summarize"

\* none of the per-session records of s is left
RecordsCleared(s) ==
    /\ s \notin pendingCompact /\ s \notin errorDataBySession
    /\ retryStateBySession[s] = Absent
    /\ fallbackStateBySession[s] = Absent
    /\ truncateStateBySession[s] = Absent
    /\ s \notin compactionInProgress

\* C12: an invocation that finds truncateAttempt, retryState.attempt and
\* revertAttempt all at their maxima enters no tier (no truncation, no
\* session.summarize, no session.revert), deletes every per-session record,
\* shows the failure toast and schedules no timer, and neither does the
\* return of that toast.
C12_TerminalFailure ==
    [][/\ \A s \in SessionIDs, hasModel \in BOOLEAN, largest \in LargestResults,
             truncated \in BOOLEAN :
             (/\ EntryStep(s, hasModel, largest, truncated)
              /\ truncateStateBySession[s] >= maxTruncateAttempts
              /\ retryStateBySession[s] >= maxAttempts
              /\ fallbackStateBySession[s] >= maxRevertAttempts) =>
                 /\ Started(s, "failureToast")
                 /\ \A pc \in GuardedPcs : ~Started(s, pc)
                 /\ RecordsCleared(s)'
                 /\ compactTimers' \sqsubseteq compactTimers
                 /\ truncatedOutputs' = truncatedOutputs
       /\ \A a \in BagToSet(activations) :
             (a.pc = "failureToast" /\ FailureToastReturn(a)) =>
                 /\ compactTimers' = compactTimers
                 /\ \A pc \in GuardedPcs : ~Started(a.sid, pc)]_vars

C12_Witness ==
    \E s \in SessionIDs :
        /\ lastCall[s] = "exhausted"
        /\ RecordsCleared(s)
        /\ \E a \in BagToSet(activations) : a.sid = s /\ a.pc = "failureToast"

\* no invocation of s is suspended and no re-invocation of s is scheduled
Quiescent(s) ==
    /\ \A a \in BagToSet(activations) : a.sid # s
    /\ \A t \in BagToSet(compactTimers) : ~(t.sid = s /\ t.kind = "retry")

\* the re-invocations one chain can schedule: one per failed summarize of a
\* round, one per successful revert
ChainBound == (maxRevertAttempts + 1) * maxAttempts + maxRevertAttempts

\* C13: while executeCompact has been invoked externally at most once, the
\* chain re-invokes itself at most ChainBound times; when timeouts fire and
\* calls return, every session ends up with no suspended invocation and no
\* scheduled re-invocation; and the step that ends a chain is the return of the
\* truncation toast, a successful session.summarize, or the return of the
\* failure toast.
C13_ChainTerminates ==
    /\ [](\A s \in SessionIDs : invoked[s] <= 1 => reinvoked[s] <= ChainBound)
    /\ \A s \in SessionIDs : <>[]Quiescent(s)
    /\ [][\A s \in SessionIDs :
             (~Quiescent(s) /\ Quiescent(s)') =>
                 \E a \in BagToSet(activations) :
                    /\ a.sid = s
                    /\ \/ TruncateToastReturn(a)
                       \/ SummarizeReturn(a, TRUE)
                       \/ FailureToastReturn(a)]_vars

C13_Witness ==
    \E s \in SessionIDs :
        /\ invoked[s] = 1 /\ reinvoked[s] = ChainBound
        /\ Quiescent(s)

\* the retry, fallback and truncate records and the guard of s are gone
RecoveryRecordsCleared(s) ==
    /\ retryStateBySession[s] = Absent
    /\ fallbackStateBySession[s] = Absent
    /\ truncateStateBySession[s] = Absent
    /\ s \notin compactionInProgress

\* the chain of s has run and ended, and its timeouts have all fired
ChainEnded(s) ==
    /\ calls[s] # <<>>
    /\ Quiescent(s)
    /\ \A t \in BagToSet(compactTimers) : t.sid # s

LastCalled(s) == calls[s][Len(calls[s])]

\* C14 as stated: whenever a chain has ended, the retry, fallback and truncate
\* records and the compactionInProgress membership of the session are gone.
C14_ClearedAsClaimed ==
    \A s \in SessionIDs : ChainEnded(s) => RecoveryRecordsCleared(s)

\* C14: a chain that ended with a successful session.summarize or with the
\* failure toast has left none of the four records; a chain that ended with a
\* successful truncation has only released the guard and keeps its counted
\* truncateAttempt.
C14_Cleared ==
    \A s \in SessionIDs :
        ChainEnded(s) =>
            IF LastCalled(s) = "toast:truncate"
            THEN /\ s \notin compactionInProgress
                 /\ truncateStateBySession[s] >= 1
            ELSE /\ LastCalled(s) \in {"summarize", "toast:failure"}
                 /\ RecoveryRecordsCleared(s)

C14_Witness ==
    \E s \in SessionIDs :
        /\ ChainEnded(s)
        /\ LastCalled(s) = "summarize"
        /\ RecoveryRecordsCleared(s)

\* the step in which the second session.revert of activation a returns
\* normally: the activation ends and no failure toast is shown
RevertSucceeded(a) ==
    /\ a.pc = "revertUser"
    /\ CopiesIn(a, activations') < CopiesIn(a, activations)
    /\ calls' = calls

\* C15: a successful revert sets retryState.attempt and truncateAttempt to 0,
\* adds one to revertAttempt, releases the guard and schedules exactly one
\* re-invocation; revertAttempt never exceeds maxRevertAttempts and only
\* decreases when the session's records are deleted.
C15_RevertBookkeeping ==
    /\ [](\A s \in SessionIDs : fallbackStateBySession[s] <= maxRevertAttempts)
    /\ [][\A a \in BagToSet(activations) :
             RevertSucceeded(a) =>
                 /\ retryStateBySession'[a.sid] = 0
                 /\ truncateStateBySession'[a.sid] = 0
                 /\ fallbackStateBySession'[a.sid] =
                        fallbackStateBySession[a.sid] + 1
                 /\ fallbackStateBySession[a.sid] >= 0
                 /\ a.sid \notin compactionInProgress'
                 /\ compactTimers' = compactTimers (+)
                        One(CompactTimer(a.sid, "retry", CHAIN_RETRY_DELAY_MS,
                                         a.hasModel))
                 /\ \A pc \in GuardedPcs \cup {"failureToast"} :
                       ~Started(a.sid, pc)]_vars
    /\ [][\A s \in SessionIDs :
             fallbackStateBySession'[s] < fallbackStateBySession[s] =>
                 RecoveryRecordsCleared(s)']_vars

C15_Witness ==
    \E s \in SessionIDs :
        /\ fallbackStateBySession[s] = maxRevertAttempts
        /\ retryStateBySession[s] = 0 /\ truncateStateBySession[s] = 0
        /\ s \notin compactionInProgress
        /\ LastCalled(s) = "revert"
        /\ \E t \in BagToSet(compactTimers) :
              t.sid = s /\ t.kind = "retry" /\ t.delay = CHAIN_RETRY_DELAY_MS

\* in the calls of the latest invocation of s, call number i comes after a
\* call of toast
ToastBefore(s, i, toast) == \E j \in 1..(i - 1) : calls[s][j] = toast

\* C16 as stated: the tier's toast is shown before truncateToolResult, before
\* session.summarize and before the first session.revert.
C16_ToastFirstAsClaimed ==
    \A s \in SessionIDs : \A i \in 1..Len(calls[s]) :
        /\ calls[s][i] = "truncateToolResult" => ToastBefore(s, i, "toast:truncate")
        /\ calls[s][i] = "summarize" => ToastBefore(s, i, "toast:summarize")
        /\ calls[s][i] = "revert" => ToastBefore(s, i, "toast:revert")

\* C16: the summarize toast is shown before session.summarize is called and
\* the revert toast before the first session.revert; the truncation toast is
\* shown only after truncateToolResult has run, as the next call.
C16_ToastOrder ==
    \A s \in SessionIDs : \A i \in 1..Len(calls[s]) :
        /\ calls[s][i] = "summarize" => ToastBefore(s, i, "toast:summarize")
        /\ calls[s][i] = "revert" => ToastBefore(s, i, "toast:revert")
        /\ calls[s][i] = "toast:truncate" =>
              i > 1 /\ calls[s][i - 1] = "truncateToolResult"

C16_Witness ==
    \E s \in SessionIDs :
        /\ Len(calls[s]) = 4
        /\ calls[s][1] = "truncateToolResult"
        /\ calls[s][3] = "toast:revert"
        /\ calls[s][4] = "revert"

\* the step ends the invocation of activation a: it waits nowhere any more
\* while holding the guard
InvocationEnds(a) ==
    /\ a.pc \in GuardedPcs
    /\ CopiesIn(a, activations') < CopiesIn(a, activations)
    /\ \A pc \in GuardedPcs : ~Started(a.sid, pc)

\* the step in which session.summarize of activation a throws: the
\* invocation ends and the session's records are still there
SummarizeFailed(a) ==
    /\ a.pc = "summarize"
    /\ InvocationEnds(a)
    /\ retryStateBySession'[a.sid] # Absent

\* the step schedules exactly one timeout, for session s and of this kind
OneTimerAdded(s, kinds) ==
    \E kind \in kinds, delay \in 0..CHAIN_RETRY_DELAY_MS, hasModel \in BOOLEAN :
        compactTimers' = compactTimers (+) One(CompactTimer(s, kind, delay, hasModel))

\* C17: a session.summarize that throws releases the guard and schedules
\* exactly one re-invocation of executeCompact, keeping the counters; and every
\* step that ends an invocation holding the guard releases the guard and either
\* schedules exactly one timeout (a re-invocation or the Continue prompt) or
\* shows the failure toast.
C17_NoFailureSwallowed ==
    [][\A a \in BagToSet(activations) :
          /\ SummarizeFailed(a) =>
                /\ a.sid \notin compactionInProgress'
                /\ OneTimerAdded(a.sid, {"retry"})
                /\ UNCHANGED <<retryStateBySession, truncateStateBySession,
                               fallbackStateBySession>>
                /\ ~Started(a.sid, "failureToast")
          /\ InvocationEnds(a) =>
                /\ a.sid \notin compactionInProgress'
                /\ \/ OneTimerAdded(a.sid, {"retry", "continue"})
                         /\ ~Started(a.sid, "failureToast")
                   \/ Started(a.sid, "failureToast")
                         /\ compactTimers' = compactTimers
                         /\ LastCalled(a.sid)' = "toast:failure"]_vars

C17_Witness ==
    \E s \in SessionIDs :
        /\ retryStateBySession[s] = maxAttempts
        /\ s \notin compactionInProgress
        /\ LastCalled(s) = "summarize"
        /\ \E t \in BagToSet(compactTimers) :
              t.sid = s /\ t.kind = "retry" /\ t.delay = cappedDelay(maxAttempts)

\* the step in which a session.revert of activation a throws
RevertFailed(a) ==
    /\ a.pc \in {"revertAssistant", "revertUser"}
    /\ InvocationEnds(a)
    /\ ~RevertSucceeded(a)

\* C18: a session.revert that throws while revertAttempt is below
\* maxRevertAttempts is retried: the step schedules a re-invocation of
\* executeCompact and does not give up.
C18_RevertRetried ==
    [][\A a \in BagToSet(activations) :
          (RevertFailed(a) /\ fallbackStateBySession[a.sid] < maxRevertAttempts) =>
              /\ OneTimerAdded(a.sid, {"retry"})
              /\ ~Started(a.sid, "failureToast")]_vars

(***************************************************************************)
(* Properties of the preemptive compaction hook                            *)
(***************************************************************************)
\* the proactive compactions of s in flight: handlers between the add to the
\* in-progress set and the finally block
InFlight(s) ==
    LET hs == {h \in BagToSet(handlers) : h.sid = s /\ h.pc \in CompactingPcs}
        RECURSIVE count(_)
        count(S) == IF S = {} THEN 0
                    ELSE LET h == CHOOSE x \in S : TRUE
                         IN  CopiesIn(h, handlers) + count(S \ {h})
    IN  count(hs)

\* while the session is not deleted, one compaction at most is in flight and
\* the in-progress set says whether one is
SingleFlightUntilDeleted ==
    \A s \in SessionIDs :
        ~sessionDeleted[s] =>
            /\ InFlight(s) <= 1
            /\ (InFlight(s) = 1) <=> (s \in preemptiveInProgress)

\* C19: for any session at most one proactive compaction, from the add to the
\* in-progress set to the finally block that removes it, is in flight at any
\* time.
C19_PreemptiveSingleFlight ==
    \A s \in SessionIDs : InFlight(s) <= 1

\* the step in which the hook calls session.summarize for s
SummarizeStarts(s) ==
    CopiesIn(Handler(s, "summarize"), handlers')
        > CopiesIn(Handler(s, "summarize"), handlers)

\* C20 as stated: for a session that is not deleted, two session.summarize
\* calls of the hook never start less than COMPACTION_COOLDOWN_MS apart.
C20_SummarizeSpacingAsClaimed ==
    [][\A s \in SessionIDs :
          (/\ ~sessionDeleted'[s]
           /\ SummarizeStarts(s)
           /\ lastSummarizeStart[s] # Absent) =>
              lastSummarizeStart'[s] - lastSummarizeStart[s]
                  >= COMPACTION_COOLDOWN_MS]_vars

\* C20: between two deletions of the session, two recordings of
\* lastCompactionTime (two checks that were not skipped) are never less than
\* COMPACTION_COOLDOWN_MS apart, and a check made less than the cooldown after
\* the recorded time records nothing and starts nothing.
C20_Cooldown ==
    [][\A s \in SessionIDs :
          /\ (/\ lastCompactionTime[s] # Absent
              /\ lastCompactionTime'[s] # Absent
              /\ lastCompactionTime'[s] # lastCompactionTime[s]) =>
                 lastCompactionTime'[s] - lastCompactionTime[s]
                     >= COMPACTION_COOLDOWN_MS
          /\ (/\ lastCompactionTime[s] # Absent
              /\ now - lastCompactionTime[s] < COMPACTION_COOLDOWN_MS
              /\ now' = now
              /\ ~sessionDeleted'[s]) =>
                 /\ lastCompactionTime'[s] = lastCompactionTime[s]
                 /\ CopiesIn(Handler(s, "toast"), handlers')
                        <= CopiesIn(Handler(s, "toast"), handlers)]_vars

C20_Witness ==
    \E s \in SessionIDs :
        /\ ~sessionDeleted[s]
        /\ lastSummarizeStart[s] # Absent
        /\ lastCompactionTime[s] - lastSummarizeStart[s] >= COMPACTION_COOLDOWN_MS
        /\ BagIn(Handler(s, "toast"), handlers)


(***************************************************************************)
(* C21: getContextLimit(modelID) returns the limit of the longest key of   *)
(* the table that is a substring of modelID, and 200,000 when no key is a  *)
(* substring                                                               *)
(***************************************************************************)
MatchingKeys(modelID) ==
    {i \in 1..Len(MODEL_CONTEXT_LIMITS) : includes(modelID, MODEL_CONTEXT_LIMITS[i].key)}

LongestKeyLimits(modelID) ==
    IF MatchingKeys(modelID) = {} THEN {200000}
    ELSE {MODEL_CONTEXT_LIMITS[i].limit :
            i \in {h \in MatchingKeys(modelID) :
                     \A j \in MatchingKeys(modelID) :
                        Len(MODEL_CONTEXT_LIMITS[j].key) <= Len(MODEL_CONTEXT_LIMITS[h].key)}}

C21_LongestKey ==
    queriedLimit # Absent => queriedLimit \in LongestKeyLimits(queriedModelID)


(***************************************************************************)
(* C22: running the orchestrator's tool.execute.before once or twice over  *)
(* the args of a sisyphus_task call, or the planner guard's over a         *)
(* delegation, leaves a prompt that had the marker as it was and a prompt   *)
(* that had it at most once with exactly one occurrence of the marker       *)
(***************************************************************************)
RECURSIVE Occurrences(_, _)
Occurrences(prompt, marker) ==
    IF prompt = <<>> THEN 0
    ELSE (IF Head(prompt) = marker THEN 1 ELSE 0) + Occurrences(Tail(prompt), marker)

InjectedOnce(marker) ==
    /\ includes(call.given, <<marker>>) => call.prompt = call.given
    /\ Occurrences(call.given, marker) <= 1 => Occurrences(call.prompt, marker) = 1

OrchestratorInjected ==
    /\ "orchestrator" \in call.ran
    /\ call.actingAgent = "orchestrator-sisyphus"
    /\ call.tool = "sisyphus_task"
    /\ call.given # <<>>

GuardInjected ==
    /\ "guard" \in call.ran
    /\ nearestAgent = "Prometheus (Planner)"
    /\ call.tool \in DelegateTools
    /\ call.given # <<>>

C22_IdempotentInjection ==
    /\ OrchestratorInjected => InjectedOnce(SingleTaskMarker)
    /\ GuardInjected => InjectedOnce(SYSTEM_DIRECTIVE_PREFIX)

C22_Witness ==
    /\ OrchestratorInjected
    /\ call.runs = 2
    /\ ~includes(call.given, <<SingleTaskMarker>>)
    /\ Occurrences(call.prompt, SingleTaskMarker) = 1


(***************************************************************************)
(* C23: the guard rejects a planner's Write/Edit of a path that does not   *)
(* end in .md (any case) with the extension failure, of a .md path that is *)
(* not inside the reserved directory with the directory failure, and       *)
(* allows it otherwise; for another agent, a non-write tool, a missing     *)
(* path or a session without stored messages it rejects nothing and        *)
(* leaves the call as it was                                               *)
(***************************************************************************)
GuardRan == "guard" \in call.ran \/ call.phase = "rejected"

PlannerWrite ==
    /\ nearestAgent = "Prometheus (Planner)"
    /\ call.tool \in {"Write", "Edit", "write", "edit"}
    /\ call.filePath # <<>>

EndsInMd(path) ==
    LET n == Len(path)
    IN  n >= 3 /\ path[n - 2] = "." /\ path[n - 1] \in {"m", "M"} /\ path[n] \in {"d", "D"}

C23_GuardDecision ==
    GuardRan =>
      /\ PlannerWrite /\ ~EndsInMd(call.filePath) => call.rejected = "extension"
      /\ PlannerWrite /\ EndsInMd(call.filePath) /\ ~isInsideReserved(call.filePath)
            => call.rejected = "directory"
      /\ PlannerWrite /\ EndsInMd(call.filePath) /\ isInsideReserved(call.filePath)
            => call.rejected = "no"
      /\ ~PlannerWrite => call.rejected = "no"
      /\ call.rejected = "no" => call.phase # "rejected"
      /\ call.rejected = "no" /\ call.tool \notin DelegateTools
            => call.prompt = call.given

C23_Witness ==
    /\ GuardRan
    /\ PlannerWrite
    /\ EndsInMd(call.filePath)
    /\ call.rejected = "directory"
    /\ call.phase = "rejected"


(***************************************************************************)
(* C24: the guard checks the reserved directory on the normalised path:    *)
(* both separators count alike, "." and ".." segments are resolved and     *)
(* case is ignored, so a planner's write to .sisyphus/../x.md is rejected  *)
(* with the directory failure while .SISYPHUS/w/x.MD and .sisyphus\x.md    *)
(* are allowed                                                             *)
(***************************************************************************)
Slashed(path) == [i \in 1..Len(path) |-> IF path[i] = "\\" THEN "/" ELSE path[i]]

IsName(seg) == seg \notin {<<>>, <<".">>, <<".", ".">>}

C24_Normalised ==
    GuardRan /\ PlannerWrite =>
      LET path == call.filePath
          segs == SplitPath(path)
          decided(p) == guardDecision(nearestAgent, call.tool, p)
      IN  /\ call.rejected = decided(Slashed(path))
          /\ call.rejected = decided(lowerCased(path))
          /\ Len(segs) = 2 /\ segs[1] = <<".">> => call.rejected = decided(segs[2])
          /\ Len(segs) = 3 /\ segs[2] = <<".">> /\ IsName(segs[1])
                => call.rejected = decided(segs[1] \o <<"/">> \o segs[3])
          /\ Len(segs) = 3 /\ segs[2] = <<".", ".">> /\ IsName(segs[1])
                => call.rejected = decided(segs[3])
          /\ Slashed(path) = DotSisyphus \o <<"/", ".", ".", "/", "x", ".", "m", "d">>
                => call.rejected = "directory"
          /\ path = <<".", "S", "I", "S", "Y", "P", "H", "U", "S", "/", "w", "/",
                      "x", ".", "M", "D">>
                => call.rejected = "no"
          /\ path = DotSisyphus \o <<"\\", "x", ".", "m", "d">> => call.rejected = "no"
          /\ Len(segs) = 2 /\ IsName(segs[1]) /\ EndsInMd(segs[2])
                => (call.rejected = "no" <=> lowerCased(segs[1]) = DotSisyphus)

C24_Witness ==
    /\ GuardRan
    /\ PlannerWrite
    /\ call.filePath = DotSisyphus \o <<"\\", ".", ".", "/", "x", ".", "m", "d">>
    /\ call.rejected = "directory"


(***************************************************************************)
(* C25: the pendingFilePaths entry that tool.execute.before stores for a   *)
(* write/edit call is removed when tool.execute.after for the same callID  *)
(* is handled, whatever the message store reports as the agent then: once  *)
(* every call's after hook has run the map is empty                        *)
(***************************************************************************)
C25_PendingCleared ==
    call.phase \in {"idle", "done"} =>
        \A id \in 1..MaxCalls : pendingFilePaths[id] = <<>>


(***************************************************************************)
(* C29: on a write/edit call made while the orchestrator is the acting     *)
(* agent, with a path that resolves outside the .sisyphus directory (also  *)
(* through ".." segments), tool.execute.before attaches the delegation     *)
(* warning without rejecting the call and the paired tool.execute.after    *)
(* appends the reminder to the result; for a path inside .sisyphus neither *)
(* is added                                                                *)
(***************************************************************************)
ResolvesInsideSisyphus(path) ==
    LET resolved == ResolveSegments(<<>>, SplitPath(path))
    IN  \E i \in 1..(Len(resolved) - 1) : resolved[i] = DotSisyphus

OrchestratorWrite ==
    /\ "orchestrator" \in call.ran
    /\ call.actingAgent = "orchestrator-sisyphus"
    /\ call.tool \in WRITE_EDIT_TOOLS
    /\ call.filePath # <<>>

Warned == includes(call.message, <<"ORCHESTRATOR_DELEGATION_REQUIRED">>)
Reminded == includes(call.output, <<"DIRECT_WORK_REMINDER">>)

C29_WritePolicy ==
    OrchestratorWrite =>
      /\ call.phase # "rejected"
      /\ ~ResolvesInsideSisyphus(call.filePath)
            => Warned /\ (call.phase = "done" => Reminded)
      /\ ResolvesInsideSisyphus(call.filePath) => ~Warned /\ ~Reminded


(***************************************************************************)
(* C26: once the hook has handled a session.error classified as an abort,  *)
(* no session.idle handled before the next user message leads to a        *)
(* boulder-continuation prompt                                             *)
(***************************************************************************)
C26_NoContinuationAfterAbort == ~lastPrompt.afterAbort

(***************************************************************************)
(* C30: when a boulder-continuation prompt is sent a boulder state exists, *)
(* the nearest agent is the orchestrator, the plan is not complete, no     *)
(* background task of the session is running and the last event of the     *)
(* session was not an abort error; each session.idle sends at most one     *)
(* prompt                                                                  *)
(***************************************************************************)
C30_ContinuationGated ==
    /\ lastPrompt.sent =>
          /\ lastPrompt.boulder
          /\ lastPrompt.orchestrator
          /\ ~lastPrompt.complete
          /\ ~lastPrompt.bgRunning
          /\ ~lastPrompt.abort
    /\ \A n \in 1..MaxBoulderIdles : promptsByIdle[n] <= 1

(***************************************************************************)
(* C27: local recovery of the todo-continuation coordinator                *)
(***************************************************************************)
\* the session's record is in idle mode and none of its timeouts is pending
IdleNoCountdown(s, ss, h, tm) ==
    /\ ss[s] # NoObj => h[ss[s]].mode = "idle"
    /\ ~\E t \in tm : t.sid = s

\* a step in which session.todo or session.prompt failed for session s
FailedFetchOrPrompt(s) ==
    \E i \in InjectionsOf(s) :
       \/ InjectionTodoReturn(i, FALSE, <<>>, FALSE, NoMessage)
       \/ PromptReturn(i, FALSE)

\* C27: a failed todo fetch or a failed prompt of the todo-continuation
\* coordinator leaves the session in idle mode with no countdown pending and
\* counts no further prompt; the failure ends the handler (the step is an
\* action of the coordinator, which removes the suspended handler)
C27_FailureLeavesIdle ==
    [][\A s \in SessionIDs :
          FailedFetchOrPrompt(s) =>
              /\ IdleNoCountdown(s, sessions', heap', timers')
              /\ prompts'[s] = prompts[s]]_vars

(***************************************************************************)
(* C28: at most one countdown timer                                        *)
(***************************************************************************)
TimersOf(s) == {t \in timers : t.sid = s}

\* C28: for every session at most one injection timeout is pending at any
\* time, whatever the overlap of the session.idle handlers
C28_OneTimer == \A s \in SessionIDs : Cardinality(TimersOf(s)) <= 1

\* The coordinator when the session.idle events of a session all overlap: but
\* for the first, each arrives while the todo fetch of an earlier one is
\* still in flight.
OverlapNext ==
    /\ Next
    /\ \A s \in SessionIDs :
          idleHandlers'[s] > idleHandlers[s] => idleHandlers[s] > 0 \/ allocated = 0

OverlapSpec == Init /\ [][OverlapNext]_vars

\* C28, second half: session.idle events that overlap lead to at most one
\* continuation prompt
C28_OnePrompt == \A s \in SessionIDs : prompts[s] <= 1

(***************************************************************************)
(* C31: the backoff of the summarize tier                                  *)
(***************************************************************************)
\* the delay the retry after the k-th failed attempt is to have
BackoffDelay(k) ==
    LET delay == initialDelayMs * backoffFactor ^ (k - 1)
    IN  IF delay < maxDelayMs THEN delay ELSE maxDelayMs

\* C31: when the k-th summarize attempt of a chain fails (k being the attempts
\* counted since the chain began or a revert reset them), exactly one
\* re-invocation is scheduled, after min(initialDelayMs * backoffFactor^(k-1),
\* maxDelayMs); that delay is at most maxDelayMs and not below the delay of
\* the failure before it; and session.summarize is called only as attempt
\* 1..maxAttempts of its chain.
C31_Backoff ==
    [][\A a \in BagToSet(activations) :
          /\ SummarizeFailed(a) =>
                LET k == retryStateBySession[a.sid]
                IN  /\ k \in 1..maxAttempts
                    /\ compactTimers' = compactTimers (+)
                          One(CompactTimer(a.sid, "retry", BackoffDelay(k), a.hasModel))
                    /\ BackoffDelay(k) <= maxDelayMs
                    /\ k > 1 => BackoffDelay(k - 1) <= BackoffDelay(k)
          /\ Started(a.sid, "summarize") =>
                retryStateBySession'[a.sid] \in 1..maxAttempts]_vars

\* the last attempt of a chain has failed and its retry, delayed by the cap,
\* is pending
C31_Witness ==
    \E s \in SessionIDs :
        /\ retryStateBySession[s] = maxAttempts
        /\ maxAttempts > 1
        /\ LastCalled(s) = "summarize"
        /\ \E t \in BagToSet(compactTimers) :
              /\ t.sid = s /\ t.kind = "retry"
              /\ t.delay = BackoffDelay(maxAttempts)
              /\ t.delay <= maxDelayMs

(***************************************************************************)
(* C32: the onBeforeSummarize callback runs before session.summarize       *)
(***************************************************************************)
\* the step changes how many handlers of session s wait at pc
Fewer(s, pc) == CopiesIn(Handler(s, pc), handlers') < CopiesIn(Handler(s, pc), handlers)
More(s, pc) == CopiesIn(Handler(s, pc), handlers') > CopiesIn(Handler(s, pc), handlers)

\* C32: with an onBeforeSummarize callback configured, a triggered compaction
\* invokes the callback once its first toast is over, and session.summarize
\* is called only in the step in which the callback has returned; when the
\* callback throws, session.summarize is not called, the handler ends there
\* and the session is no longer in the in-progress set.
C32_CallbackFirst ==
    [][\A s \in SessionIDs :
          /\ onBeforeSummarize /\ Fewer(s, "toast") => More(s, "callback")
          /\ onBeforeSummarize /\ More(s, "summarize") => Fewer(s, "callback")
          /\ CallbackReturn(Handler(s, "callback"), FALSE) =>
                /\ ~More(s, "summarize")
                /\ lastSummarizeStart' = lastSummarizeStart
                /\ handlers' = handlers (-) One(Handler(s, "callback"))
                /\ s \notin preemptiveInProgress']_vars

\* a compaction was triggered, its callback threw: every handler has ended,
\* session.summarize was never called and the session is not in progress
C32_Witness ==
    \E s \in SessionIDs :
        /\ onBeforeSummarize
        /\ lastCheck[s] = "triggered"
        /\ ~sessionDeleted[s]
        /\ lastSummarizeStart[s] = Absent
        /\ handlers = EmptyBag
        /\ s \notin preemptiveInProgress

(***************************************************************************)
(* C33: the attempt counters stay within their bounds                      *)
(***************************************************************************)
\* C33: in every reachable state of the executor the truncate, retry and
\* revert counters of every session are at most maxTruncateAttempts,
\* maxAttempts and maxRevertAttempts (a session without a record counts 0).
C33_CountersBounded ==
    \A s \in SessionIDs :
        /\ truncateStateBySession[s] <= maxTruncateAttempts
        /\ retryStateBySession[s] <= maxAttempts
        /\ fallbackStateBySession[s] <= maxRevertAttempts

\* the three counters are at their bounds at once
C33_Witness ==
    \E s \in SessionIDs :
        /\ truncateStateBySession[s] = maxTruncateAttempts
        /\ retryStateBySession[s] = maxAttempts
        /\ fallbackStateBySession[s] = maxRevertAttempts
        /\ reinvoked[s] > 0

(***************************************************************************)
(* C34: session.idle events that are debounced                             *)
(***************************************************************************)
\* the handler of session.idle for s, with mainSessionID the main session,
\* issues a todo fetch or writes the session's record or timeouts
IdleHasEffect(s, mainSessionID) ==
    /\ SessionIdle(s, mainSessionID)
    /\ \/ idleHandlers' # idleHandlers
       \/ sessions' # sessions
       \/ heap' # heap
       \/ timers' # timers
    /\ UNCHANGED <<compactVars, preemptVars, hookVars>>

DebouncedModes == {"countingDown", "injecting", "recovering", "errorBypass"}

\* C34: a session.idle handled for a session that is not the main session,
\* or whose mode is countingDown, injecting, recovering or errorBypass,
\* issues no todo fetch and leaves the session's record (version, mode,
\* timer, lastAttemptedAt) and its pending timeout as they are.
C34_Debounce ==
    \A s \in SessionIDs, m \in MainSessionIDs :
        (\/ ~(m = NoSession \/ m = s)
         \/ HasState(s) /\ State(s).mode \in DebouncedModes)
            => ~ENABLED IdleHasEffect(s, m)

\* a session.idle can arrive for the main session while its countdown runs
C34_Witness ==
    \E s \in SessionIDs :
        /\ HasState(s) /\ State(s).mode = "countingDown"
        /\ \E t \in timers : t.sid = s
        /\ ENABLED (SessionIdle(s, s) /\ UNCHANGED <<compactVars, preemptVars, hookVars>>)

(***************************************************************************)
(* C35: nothing is sent for a session after its deletion                   *)
(***************************************************************************)
\* the step in which injection i calls session.prompt
SendsPrompt(i) ==
    /\ i.pc = "todo"
    /\ [i EXCEPT !.pc = "prompt"] \in injections'
    /\ prompts'[i.sid] = prompts[i.sid] + 1

\* C35: no continuation prompt is sent by an injection that was started
\* before session.deleted was handled for its session: an injection that
\* sends the prompt still holds the record the sessions Map has for the
\* session (only session.deleted takes a record out of the Map).
C35_NoPromptAfterDeletion ==
    [][\A i \in injections : SendsPrompt(i) => sessions[i.sid] = i.obj]_vars

(***************************************************************************)
(* C36: a stale injection leaves the mode alone                            *)
(***************************************************************************)
\* the step in which injection i resumes from an await and finds the version
\* of the session's record different from the one it captured
ResumesStale(i) ==
    /\ i \notin injections'
    /\ sessions[i.sid] = i.obj
    /\ heap[i.obj].version # i.ver

\* C36: an executeInjection activation that resumes with a captured version
\* different from the live one does not change the session's mode
C36_StaleKeepsMode ==
    [][\A i \in injections :
          ResumesStale(i) => heap'[i.obj].mode = heap[i.obj].mode]_vars

(***************************************************************************)
(* C37: timer and mode agree                                               *)
(***************************************************************************)
\* C37: in every reachable state a session has a pending injection timeout
\* if and only if its record exists and is in countingDown mode
C37_TimerIffCountingDown ==
    \A s \in SessionIDs :
        (TimersOf(s) # {}) <=> (HasState(s) /\ State(s).mode = "countingDown")

(***************************************************************************)
(* C38: the compaction guard never leaks                                   *)
(***************************************************************************)
\* C38: a session is in compactionInProgress only while an activation of
\* executeCompact is between the acquisition of the guard and its return,
\* and with timeouts firing and client calls returning or throwing the guard
\* of a session is always released again.
C38_GuardNeverLeaks ==
    /\ [](\A s \in SessionIDs : s \in compactionInProgress => NumGuarded(s) >= 1)
    /\ \A s \in SessionIDs :
          (s \in compactionInProgress) ~> (s \notin compactionInProgress)

\* an invocation went through the executor to its give-up and has returned:
\* nothing is running and the guard is free
C38_Witness ==
    \E s \in SessionIDs :
        /\ invoked[s] > 0
        /\ LastCalled(s) = "toast:failure"
        /\ activations = EmptyBag
        /\ s \notin compactionInProgress

(***************************************************************************)
(* C39: no retry survives the end of a chain                               *)
(***************************************************************************)
\* C39: no re-invocation of executeCompact is pending for a session whose
\* state has been cleared: a pending retry timeout belongs to a session that
\* still has the retry record its chain counted in (the record is created
\* before any retry is scheduled and removed only by clearSessionState).
C39_NoRetryAfterClear ==
    \A t \in BagToSet(compactTimers) :
        t.kind = "retry" => retryStateBySession[t.sid] # Absent

(***************************************************************************)
(* The coordinator under an event loop that makes progress                 *)
(***************************************************************************)
\* what the event loop and the client do without any new event: time
\* passes, a due timeout fires, an awaited call returns or throws
TodoProgress ==
    /\ \/ Tick
       \/ \E t \in timers : TimerFire(t)
       \/ \E s \in SessionIDs, ok \in BOOLEAN :
          \E todos \in TodosRead(ok) :
          \E bg \in BackgroundRead(ok /\ getIncompleteCount(todos) # 0) :
             IdleTodoReturn(s, ok, todos, bg)
       \/ \E i \in injections, ok \in BOOLEAN :
          \E todos \in TodosRead(ok) :
          \E bg \in BackgroundRead(ok /\ getIncompleteCount(todos) # 0) :
          \E prevMessage \in
                PrevMessageRead(ok /\ getIncompleteCount(todos) # 0 /\ ~bg) :
             InjectionTodoReturn(i, ok, todos, bg, prevMessage)
       \/ \E i \in injections, ok \in BOOLEAN : PromptReturn(i, ok)
    /\ UNCHANGED <<compactVars, preemptVars, hookVars>>

\* every timeout fires and every awaited call returns or throws
TodoFairSpec == Spec /\ WF_vars(TodoProgress)

(***************************************************************************)
(* C40: every countdown resolves                                           *)
(***************************************************************************)
Busy(s) == HasState(s) /\ State(s).mode \in {"countingDown", "injecting"}

\* timeout t is that of the current countdown of its session
CurrentTimer(t) ==
    /\ sessions[t.sid] = t.obj
    /\ heap[t.obj].version = t.ver

\* C40: with timeouts firing and calls returning or throwing, a session in
\* countingDown or injecting mode eventually is in neither (idle,
\* errorBypass, recovering, or deleted); and the timeout of a current
\* countdown, when it fires, either starts the injection (which ends by the
\* prompt or by a failed check) or fails the mode check or the throttle.
C40_CountdownResolves ==
    /\ \A s \in SessionIDs : Busy(s) ~> ~Busy(s)
    /\ [][\A t \in timers :
             (CurrentTimer(t) /\ TimerFire(t)) =>
                \/ [sid |-> t.sid, obj |-> t.obj, ver |-> t.ver, pc |-> "todo"]
                      \in injections'
                \/ heap[t.obj].mode # "countingDown"
                \/ Throttled(heap[t.obj]) /\ heap'[t.obj].mode = "idle"]_vars

\* a countdown has resolved by its prompt: the prompt was sent, the
\* injection has returned and the session is idle again
C40_Witness ==
    \E s \in SessionIDs :
        /\ prompts[s] > 0
        /\ injections = {} /\ timers = {}
        /\ HasState(s) /\ State(s).mode = "idle"

=============================================================================
